---- MODULE Spec2Model ----
(***************************************************************************)
(* Model of the Coop <-> Ozone bridge (OzoneService, OzoneApiClient).      *)
(*                                                                         *)
(* Outbound: OzoneService.emitEvent, one step per await of the method.     *)
(* Inbound:  OzoneService.pollEvents, one step per await of the method.    *)
(* Scheduler: OzoneEventPollingJob.run, pollOrg and processEvent, one step *)
(*           per await; a kill of the process restarts run from scratch.   *)
(*                                                                         *)
(* Nullable values (null / undefined in the source) are sequences of       *)
(* length at most one: None is <<>> and Some(x) is <<x>>.  Error messages  *)
(* are sequences of string fragments, so that "the message contains the    *)
(* status" is a membership test on the fragments.                          *)
(***************************************************************************)
EXTENDS Integers, Sequences, FiniteSets, TLC

\* ------------------------------------------------------------------------
\* Bounds of the model
\* ------------------------------------------------------------------------
MaxEmit ==
    2
MaxPoll ==
    2
MaxDbFaults ==
    1
MaxConfigEdits ==
    1
MaxCycles ==
    2
MaxCrashes ==
    1
MaxDisturbances ==
    1
PollIntervalTicks ==
    1
MaxMappings ==
    2
MaxMapWrites ==
    2
MaxTenantOps ==
    2

\* ------------------------------------------------------------------------
\* Values
\* ------------------------------------------------------------------------
None ==
    <<>>
Some(x) ==
    <<x>>
IsSome(o) ==
    Len(o) = 1
Val(o) ==
    o[1]

Orgs ==
    {"org1", "org2"}
EmitCalls ==
    1..MaxEmit
PollCalls ==
    1..MaxPoll
ActionIds ==
    {"action-1"}

\* signal_auth_service.ozone_configs rows the credential store can hold.
\* GoodKey is 64 hexadecimal characters, a 32-byte secp256k1 scalar; BadKey is
\* a signing key jose.importPKCS8 rejects; OtherKey is a second 32-byte key.
GoodKey ==
    "a1b2a1b2a1b2a1b2a1b2a1b2a1b2a1b2a1b2a1b2a1b2a1b2a1b2a1b2a1b2a1b2"
BadKey ==
    "zz"
OtherKey ==
    "c3d4c3d4c3d4c3d4c3d4c3d4c3d4c3d4c3d4c3d4c3d4c3d4c3d4c3d4c3d4c3d4"
Credentials ==
    { [serviceUrl |-> "https://ozone.one", did |-> "did:plc:coop1", signingKey |-> GoodKey],
      [serviceUrl |-> "https://ozone.two", did |-> "did:plc:coop2", signingKey |-> BadKey] }

\* org1 is configured, org2 is not; the credential store edits both later.
InitialCredentials ==
    [o \in Orgs |-> IF o = "org1"
                    THEN Some([serviceUrl |-> "https://ozone.one", did |-> "did:plc:coop1",
                               signingKey |-> GoodKey])
                    ELSE None]

\* cursors the labeler can put in a queryEvents response ("" is a string too)
Cursors ==
    {"", "41", "42"}
\* OzoneQueryEventsResponse: {cursor?: string; events: OzoneModerationEvent[]}
\* the bodies the labeler answers with: a page with a cursor, an empty page
\* without one, and a page of events without one
Responses ==
    {[cursor |-> Some(cu), events |-> <<"e1", "e2">>] : cu \in Cursors}
    \cup {[cursor |-> None, events |-> <<>>], [cursor |-> None, events |-> <<"e1", "e2">>]}

\* the row the integration guide inserts to enable sync for an org
EnabledRow ==
    [last_synced_cursor |-> None, last_synced_at |-> None, sync_enabled |-> TRUE,
     updated_at |-> 0]
\* org1 has sync enabled and has never been polled; org2 has no row.
InitialSyncState ==
    [o \in Orgs |-> IF o = "org1" THEN Some(EnabledRow) ELSE None]

\* HTTP statuses the labeler answers with.
HttpStatuses ==
    {200, 500}

VARIABLES
    credentials,      \* signalAuthService: org -> Option(credential)
    configEdits,      \* number of edits operators made to credentials and sync flags
    emitted_events,   \* ozone_service.emitted_events, row id = index
    statusHistory,    \* per row id: the statuses the row has had, in order
    rowCreator,       \* per row id: the emitEvent call whose insert created the row
    emitCall,         \* per emitEvent call: position and locals
    sentEmits,        \* requests that reached fetchHTTP in OzoneApiClient.emitEvent
    dbFaults,         \* number of failed database statements so far
    event_sync_state, \* ozone_service.event_sync_state: org -> Option(row)
    cursorHistory,    \* per org: values written to last_synced_cursor, in order
    pollCall,         \* per pollEvents call: position and locals
    sentQueries,      \* requests that reached fetchHTTP in OzoneApiClient.queryEvents
    returnedCursors,  \* per org: cursors the labeler returned in queryEvents responses
    now,              \* the next value of the clock read by new Date() and NOW()
    job,              \* OzoneEventPollingJob.run: position and locals
    aborted,          \* signal.aborted
    enqueueCalls,     \* calls of manualReviewToolService.enqueue, in order
    handled,          \* per org: ids of the events passed to processEvent, in order
    jobLog,           \* number of errors each catch of the job has logged
    crashes,          \* number of times the job's process was killed and restarted
    disturbances,     \* number of times a collaborator of the job did not cooperate
    sleepTicks,       \* ticks of the timer of sleep(pollIntervalMs) that have passed
    label_mappings,   \* ozone_service.label_mappings: the rows, in insertion order
    mapWrites,        \* number of setLabelMapping / deleteLabelMapping calls so far
    mapCall,          \* the last label-mapping call: operation, arguments, outcome
    fnCall            \* the last call of a helper function: arguments and outcome

emitVars ==
    <<emitted_events, statusHistory, rowCreator, emitCall, sentEmits>>
pollVars ==
    <<event_sync_state, cursorHistory, pollCall, sentQueries, returnedCursors, now>>
jobVars ==
    <<job, aborted, enqueueCalls, handled, jobLog, crashes, disturbances, sleepTicks>>
mapVars ==
    <<label_mappings, mapWrites, mapCall>>
fnVars ==
    <<fnCall>>
vars ==
    <<credentials, configEdits, emitted_events, statusHistory, rowCreator, emitCall, sentEmits,
      dbFaults,
      event_sync_state, cursorHistory, pollCall, sentQueries, returnedCursors, now,
      job, aborted, enqueueCalls, handled, jobLog, crashes, disturbances, sleepTicks,
      label_mappings, mapWrites, mapCall, fnCall>>

\* ------------------------------------------------------------------------
\* Errors
\* ------------------------------------------------------------------------
\* ozoneService.ts:78-80
NotConfiguredMessage(orgId) ==
    <<"Ozone is not configured for org ", orgId, ". Configure Ozone credentials first.">>
\* ozoneApiClient.ts:108-110
EmitFailedMessage(status) ==
    <<"Ozone emitEvent failed with status ", ToString(status)>>
\* ozoneApiClient.ts:74-76
QueryFailedMessage(status) ==
    <<"Ozone queryEvents failed with status ", ToString(status)>>
\* fetchHTTP rejects: timeout, DNS, TLS
TransportMessage ==
    <<"fetch failed">>
\* jose.importPKCS8 rejects the PEM
MintMessage ==
    <<"Invalid key">>
\* credential.did with credential === null
NullDidMessage ==
    <<"Cannot read properties of null (reading 'did')">>
\* a kysely statement rejects
DbMessage ==
    <<"database statement failed">>
\* a catch that records a fixed text instead of the error's message
MessageOf_Generic(e) ==
    <<"emit failed">>

\* e instanceof Error ? e.message : String(e)
MessageOf(e) ==
    e.message
MakeError(msg) ==
    [name |-> "Error", message |-> msg]
Contains(msg, fragment) ==
    \E i \in DOMAIN msg : msg[i] = fragment

\* ------------------------------------------------------------------------
\* OzoneApiClient
\* ------------------------------------------------------------------------
\* new OzoneApiClient(fetchHTTP, {serviceUrl, did, signingKey})
OzoneApiClient(credential) ==
    [serviceUrl |-> credential.serviceUrl,
     did |-> credential.did,
     signingKey |-> credential.signingKey]

\* ---- strings the client takes apart ----
\* seq repeated times times
RECURSIVE Rep(_, _)
Rep(seq, times) ==
    IF times = 0 THEN <<>> ELSE seq \o Rep(seq, times - 1)

\* keys a credential can carry besides GoodKey, BadKey and OtherKey: with the
\* 0x prefix, in upper case, one character short, two bytes short, two bytes
\* long, with a character outside [0-9a-fA-F] in second and in first place of
\* a pair, and without any hexadecimal character
PrefixedKey ==
    "0xa1b2a1b2a1b2a1b2a1b2a1b2a1b2a1b2a1b2a1b2a1b2a1b2a1b2a1b2a1b2a1b2"
UpperKey ==
    "A1B2A1B2A1B2A1B2A1B2A1B2A1B2A1B2A1B2A1B2A1B2A1B2A1B2A1B2A1B2A1B2"
OddKey ==
    "a1b2a1b2a1b2a1b2a1b2a1b2a1b2a1b2a1b2a1b2a1b2a1b2a1b2a1b2a1b2a1b"
ShortKey ==
    "a1b2a1b2a1b2a1b2a1b2a1b2a1b2a1b2a1b2a1b2a1b2a1b2a1b2a1b2a1b2"
LongKey ==
    "a1b2a1b2a1b2a1b2a1b2a1b2a1b2a1b2a1b2a1b2a1b2a1b2a1b2a1b2a1b2a1b2a1b2"
TrailingNonHexKey ==
    "a1b2a1b2a1b2a1b2a1b2a1b2a1b2a1b2a1b2a1b2a1b2a1b2a1b2a1b2a1b2a1bg"
LeadingNonHexKey ==
    "g1b2a1b2a1b2a1b2a1b2a1b2a1b2a1b2a1b2a1b2a1b2a1b2a1b2a1b2a1b2a1b2"
NonHexKey ==
    "zzzzzzzzzzzzzzzzzzzzzzzzzzzzzzzzzzzzzzzzzzzzzzzzzzzzzzzzzzzzzzzz"

\* the characters of a signing key, in order
KeyChars(signingKey) ==
    CASE signingKey = GoodKey -> Rep(<<"a", "1", "b", "2">>, 16)
      [] signingKey = BadKey -> <<"z", "z">>
      [] signingKey = OtherKey -> Rep(<<"c", "3", "d", "4">>, 16)
      [] signingKey = PrefixedKey -> <<"0", "x">> \o Rep(<<"a", "1", "b", "2">>, 16)
      [] signingKey = UpperKey -> Rep(<<"A", "1", "B", "2">>, 16)
      [] signingKey = OddKey -> Rep(<<"a", "1", "b", "2">>, 15) \o <<"a", "1", "b">>
      [] signingKey = ShortKey -> Rep(<<"a", "1", "b", "2">>, 15)
      [] signingKey = LongKey -> Rep(<<"a", "1", "b", "2">>, 17)
      [] signingKey = TrailingNonHexKey -> Rep(<<"a", "1", "b", "2">>, 15) \o <<"a", "1", "b", "g">>
      [] signingKey = LeadingNonHexKey -> <<"g", "1", "b", "2">> \o Rep(<<"a", "1", "b", "2">>, 15)
      [] signingKey = NonHexKey -> Rep(<<"z">>, 64)

\* the parts of a serviceUrl: scheme, host, and port and path if it has them
UrlParts(serviceUrl) ==
    CASE serviceUrl = "https://ozone.one" -> <<"https://", "ozone.one">>
      [] serviceUrl = "https://ozone.two" -> <<"https://", "ozone.two">>
      [] serviceUrl = "https://Ozone.Example.com:3000/xrpc" ->
            <<"https://", "Ozone.Example.com", ":3000", "/xrpc">>
      [] serviceUrl = "http://localhost:2583" -> <<"http://", "localhost", ":2583">>
      [] serviceUrl = "ozone.one" -> <<"ozone.one">>

\* the URL parser lower-cases the host
ToAsciiLower(host) ==
    IF host = "Ozone.Example.com" THEN "ozone.example.com" ELSE host

\* new URL(serviceUrl) throws a TypeError without a scheme
UrlThrows(serviceUrl) ==
    LET parts == UrlParts(serviceUrl) IN
    ~(Len(parts) >= 2 /\ parts[1] \in {"https://", "http://"})
InvalidUrlMessage ==
    <<"Invalid URL">>

\* new URL(serviceUrl).host: the lower-cased host with the port
UrlHost(serviceUrl) ==
    LET parts == UrlParts(serviceUrl) IN
    IF Len(parts) >= 3 /\ parts[3] \in {":3000", ":2583"}
    THEN <<ToAsciiLower(parts[2]), parts[3]>>
    ELSE <<ToAsciiLower(parts[2])>>

\* new URL(serviceUrl).hostname: the lower-cased host, without port and path
UrlHostname(serviceUrl) ==
    ToAsciiLower(UrlParts(serviceUrl)[2])

\* ---- hexToUint8Array ----
\* the value of a hexadecimal digit, -1 for any other character
HexDigit(ch) ==
    CASE ch \in {"0"} -> 0 [] ch \in {"1"} -> 1 [] ch \in {"2"} -> 2 [] ch \in {"3"} -> 3
      [] ch \in {"4"} -> 4 [] ch \in {"5"} -> 5 [] ch \in {"6"} -> 6 [] ch \in {"7"} -> 7
      [] ch \in {"8"} -> 8 [] ch \in {"9"} -> 9
      [] ch \in {"a", "A"} -> 10 [] ch \in {"b", "B"} -> 11 [] ch \in {"c", "C"} -> 12
      [] ch \in {"d", "D"} -> 13 [] ch \in {"e", "E"} -> 14 [] ch \in {"f", "F"} -> 15
      [] OTHER -> -1

\* parseInt(pair, 16) stored in a Uint8Array: parseInt reads the longest prefix
\* of hexadecimal digits, and the NaN of an empty prefix is stored as 0
ParseIntByte(pair) ==
    LET hi == HexDigit(pair[1])
        lo == HexDigit(pair[2]) IN
    IF hi = -1 THEN 0
    ELSE IF lo = -1 THEN hi
    ELSE 16 * hi + lo

\* hex.startsWith('0x') ? hex.slice(2) : hex
CleanHex(hex) ==
    IF Len(hex) >= 2 /\ hex[1] = "0" /\ hex[2] = "x" THEN SubSeq(hex, 3, Len(hex)) ELSE hex

\* new Uint8Array(cleanHex.length / 2) throws a RangeError for a length that
\* is not an integer
HexThrows(hex) ==
    Len(CleanHex(hex)) % 2 = 1
RangeErrorMessage ==
    <<"Invalid typed array length">>

\* hexToUint8Array(hex), for the keys it does not throw on
hexToUint8Array(hex) ==
    LET cleanHex == CleanHex(hex) IN
    [i \in 1..(Len(cleanHex) \div 2) |-> ParseIntByte(SubSeq(cleanHex, 2 * i - 1, 2 * i))]

\* ---- rawSecp256k1ToPKCS8Pem and jose.importPKCS8 ----
\* the DER header: PrivateKeyInfo of 62 bytes, ecPublicKey on secp256k1, and
\* an ECPrivateKey whose OCTET STRING announces 32 bytes
pkcs8Header ==
    <<48, 62, 2, 1, 0, 48, 16, 6, 7, 42, 134, 72, 206, 61, 2, 1, 6, 5, 43, 129, 4, 0, 10,
      4, 39, 48, 37, 2, 1, 1, 4, 32>>

\* the PEM text; the base64 body is written as the bytes it encodes
rawSecp256k1ToPKCS8Pem(rawKey) ==
    [label |-> "PRIVATE KEY", der |-> pkcs8Header \o rawKey]

\* what jose.importPKCS8(pem, 'ES256K') can do with the PEM: TRUE for a key,
\* FALSE for a rejection.  A DER shorter than its header announces does not
\* parse; 32 bytes with a scalar that is not zero are a key (every key of the
\* model is below the group order); whether bytes after the announced 62 or a
\* zero scalar are rejected is the library's choice.
importPKCS8(pem) ==
    LET announced == pem.der[2] + 2
        rawKey == SubSeq(pem.der, Len(pkcs8Header) + 1, Len(pem.der)) IN
    IF Len(pem.der) < announced THEN {FALSE}
    ELSE IF Len(pem.der) > announced THEN {TRUE, FALSE}
    ELSE IF \A i \in DOMAIN rawKey : rawKey[i] = 0 THEN {TRUE, FALSE}
    ELSE {TRUE}

\* the outcomes of the key import of createServiceAuthToken
ImportOutcomes(signingKey) ==
    IF HexThrows(KeyChars(signingKey)) THEN {FALSE}
    ELSE importPKCS8(rawSecp256k1ToPKCS8Pem(hexToUint8Array(KeyChars(signingKey))))

\* the outcomes of the import for every key of the model, computed once
SigningKeys ==
    {GoodKey, BadKey, OtherKey, PrefixedKey, UpperKey, OddKey, ShortKey, LongKey,
     TrailingNonHexKey, LeadingNonHexKey, NonHexKey}
ImportOutcomesOf ==
    [signingKey \in SigningKeys |-> ImportOutcomes(signingKey)]

\* createServiceAuthToken succeeds iff the key imports
KeyImports(signingKey) ==
    TRUE \in ImportOutcomesOf[signingKey]

\* Math.floor(Date.now() / 1000)
FloorSeconds(dateNow) ==
    dateNow \div 1000

\* a variant that signs the time in milliseconds and the host with its port
createServiceAuthToken_Millis(config, dateNow) ==
    [iss |-> config.did, aud |-> <<"did:web:">> \o UrlHost(config.serviceUrl),
     exp |-> dateNow + 60, iat |-> dateNow]

\* the claims of the token createServiceAuthToken signs when Date.now() is dateNow
createServiceAuthToken(config, dateNow) ==
    [iss |-> config.did, aud |-> <<"did:web:", UrlHostname(config.serviceUrl)>>,
     exp |-> FloorSeconds(dateNow) + 60, iat |-> FloorSeconds(dateNow)]

\* response.ok
ResponseOk(status) ==
    status >= 200 /\ status <= 299

\* ------------------------------------------------------------------------
\* Initial state
\* ------------------------------------------------------------------------
IdleEmit ==
    [pc |-> "idle", orgId |-> "org1", coopActionId |-> "action-1",
     client |-> None, credential |-> None, eventRecord |-> None,
     http |-> "none", status |-> None, e |-> None, failedAt |-> None, thrown |-> None]

IdlePoll ==
    [pc |-> "idle", orgId |-> "org1", client |-> None, syncState |-> None,
     response |-> None, at |-> 0, overlap |-> {}, result |-> None, thrown |-> None]

\* the locals of run(), pollOrg() and processEvent() before run() is called
IdleJob ==
    [pc |-> "start", env |-> None, cycle |-> 0, listed |-> None, polled |-> <<>>, broke |-> FALSE,
     orgIds |-> <<>>, orgId |-> None, events |-> <<>>, event |-> None,
     classified |-> None, item |-> None]

NoLog ==
    [loop |-> 0, poll |-> 0, event |-> 0]

\* no label-mapping call has been made
IdleMap ==
    [op |-> "none", orgId |-> None, mappings |-> <<>>, policy |-> None, labels |-> <<>>,
     direction |-> None, result |-> None, thrown |-> None]

\* the label_mappings row the integration guide's example tenant has:
\* org2 maps SPAM to its own label, org1 has no rows
InitialMappings ==
    << [id |-> 1, org_id |-> "org2", coop_policy_type |-> "SPAM",
        ozone_label_value |-> "x-spam", direction |-> "BOTH"] >>

InitMapVars ==
    /\ label_mappings = InitialMappings
    /\ mapWrites = 0
    /\ mapCall = IdleMap

\* no helper function has been called
IdleFn ==
    [op |-> "none"]

InitFnVars ==
    fnCall = IdleFn

InitJobVars ==
    /\ job = IdleJob
    /\ aborted = FALSE
    /\ enqueueCalls = <<>>
    /\ handled = [o \in Orgs |-> <<>>]
    /\ jobLog = NoLog
    /\ crashes = 0
    /\ disturbances = 0
    /\ sleepTicks = 0

Init ==
    /\ InitJobVars
    /\ InitFnVars
    /\ InitMapVars
    /\ credentials = InitialCredentials
    /\ configEdits = 0
    /\ emitted_events = <<>>
    /\ statusHistory = <<>>
    /\ rowCreator = <<>>
    /\ emitCall = [c \in EmitCalls |-> IdleEmit]
    /\ sentEmits = {}
    /\ dbFaults = 0
    /\ event_sync_state = InitialSyncState
    /\ cursorHistory = [o \in Orgs |-> <<None>>]
    /\ pollCall = [p \in PollCalls |-> IdlePoll]
    /\ sentQueries = {}
    /\ returnedCursors = [o \in Orgs |-> {}]
    /\ now = 0

\* ------------------------------------------------------------------------
\* Credential store (collaborator): credentials are edited outside the bridge
\* ------------------------------------------------------------------------
SetCredential(orgId, cr) ==
    /\ configEdits < MaxConfigEdits
    /\ credentials[orgId] # Some(cr)
    /\ credentials' = [credentials EXCEPT ![orgId] = Some(cr)]
    /\ configEdits' = configEdits + 1
    /\ UNCHANGED <<emitVars, pollVars, jobVars, fnVars, mapVars, dbFaults>>

RemoveCredential(orgId) ==
    /\ configEdits < MaxConfigEdits
    /\ credentials[orgId] # None
    /\ credentials' = [credentials EXCEPT ![orgId] = None]
    /\ configEdits' = configEdits + 1
    /\ UNCHANGED <<emitVars, pollVars, jobVars, fnVars, mapVars, dbFaults>>

\* a database statement may reject; a rejected statement has no effect
DbFails ==
    /\ dbFaults < MaxDbFaults
    /\ dbFaults' = dbFaults + 1

\* ------------------------------------------------------------------------
\* Audit table ozone_service.emitted_events
\* ------------------------------------------------------------------------
\* the row emitEvent inserts
PendingRow(orgId, coopActionId) ==
    [org_id |-> orgId, coop_action_id |-> coopActionId, status |-> "PENDING",
     ozone_response |-> None, error |-> None, retry_count |-> 0]

\* insertInto('ozone_service.emitted_events').values(row).returning(['id'])
InsertEvent(rows, row) ==
    Append(rows, row)

\* SetSuccess with the where clause on coop_action_id instead of id
SetSuccess_ByActionId(rows, id, response) ==
    [i \in DOMAIN rows |->
        IF rows[i].coop_action_id = rows[id].coop_action_id
        THEN [rows[i] EXCEPT !.status = "SUCCESS", !.ozone_response = Some(response)]
        ELSE rows[i]]

\* updateTable(...).set({status, ozone_response}).where('id', '=', id)
SetSuccess(rows, id, response) ==
    [i \in DOMAIN rows |->
        IF i = id
        THEN [rows[i] EXCEPT !.status = "SUCCESS", !.ozone_response = Some(response)]
        ELSE rows[i]]

\* SetRetryable without its where clause
SetRetryable_NoWhere(rows, id, message) ==
    [i \in DOMAIN rows |->
        [rows[i] EXCEPT !.status = "RETRYABLE_ERROR", !.error = Some(message)]]

\* updateTable(...).set({status, error}).where('id', '=', id)
SetRetryable(rows, id, message) ==
    [i \in DOMAIN rows |->
        IF i = id
        THEN [rows[i] EXCEPT !.status = "RETRYABLE_ERROR", !.error = Some(message)]
        ELSE rows[i]]

\* the status history after the table went from its current content to rows
Recorded(rows) ==
    [i \in DOMAIN rows |->
        IF i \in DOMAIN statusHistory
        THEN IF rows[i].status = emitted_events[i].status
             THEN statusHistory[i]
             ELSE Append(statusHistory[i], rows[i].status)
        ELSE <<rows[i].status>>]

\* ------------------------------------------------------------------------
\* OzoneService.emitEvent
\* ------------------------------------------------------------------------
\* emitEvent with the credential check placed after the PENDING insert
EmitGetClient_InsertFirst(c, orgId, coopActionId) ==
    /\ emitCall[c].pc = "idle"
    /\ \A d \in EmitCalls : d < c => emitCall[d].pc # "idle"
    /\ LET call == [IdleEmit EXCEPT !.orgId = orgId, !.coopActionId = coopActionId] IN
       \/ /\ credentials[orgId] = None
          /\ emitted_events' = InsertEvent(emitted_events, PendingRow(orgId, coopActionId))
          /\ statusHistory' = Recorded(emitted_events')
          /\ rowCreator' = Append(rowCreator, c)
          /\ emitCall' = [emitCall EXCEPT ![c] = [call EXCEPT !.pc = "raised",
                !.thrown = Some(MakeError(NotConfiguredMessage(orgId)))]]
       \/ /\ credentials[orgId] # None
          /\ emitCall' = [emitCall EXCEPT ![c] = [call EXCEPT !.pc = "getCredential",
                !.client = Some(OzoneApiClient(Val(credentials[orgId])))]]
          /\ UNCHANGED <<emitted_events, statusHistory, rowCreator>>
    /\ UNCHANGED <<credentials, configEdits, sentEmits, dbFaults, pollVars, jobVars, fnVars, mapVars>>

\* emitEvent(params) up to: const client = await this.getClient(orgId);
\* if (!client) throw ...   Calls are numbered in invocation order.
EmitGetClient(c, orgId, coopActionId) ==
    /\ emitCall[c].pc = "idle"
    /\ \A d \in EmitCalls : d < c => emitCall[d].pc # "idle"
    /\ LET call == [IdleEmit EXCEPT !.orgId = orgId, !.coopActionId = coopActionId] IN
       \/ /\ credentials[orgId] = None
          /\ emitCall' = [emitCall EXCEPT ![c] = [call EXCEPT !.pc = "raised",
                !.thrown = Some(MakeError(NotConfiguredMessage(orgId)))]]
          /\ UNCHANGED dbFaults
       \/ /\ credentials[orgId] # None
          /\ emitCall' = [emitCall EXCEPT ![c] = [call EXCEPT !.pc = "getCredential",
                !.client = Some(OzoneApiClient(Val(credentials[orgId])))]]
          /\ UNCHANGED dbFaults
       \/ /\ DbFails
          /\ emitCall' = [emitCall EXCEPT ![c] = [call EXCEPT !.pc = "raised",
                !.failedAt = Some("getClient"),
                !.thrown = Some(MakeError(DbMessage))]]
    /\ UNCHANGED <<credentials, configEdits, emitted_events, statusHistory, rowCreator,
                   sentEmits, pollVars, jobVars, fnVars, mapVars>>

\* const credential = (await this.signalAuthService.get('OZONE', orgId))!;
EmitGetCredential(c) ==
    /\ emitCall[c].pc = "getCredential"
    /\ \/ /\ emitCall' = [emitCall EXCEPT ![c].pc = "insert",
                ![c].credential = credentials[emitCall[c].orgId]]
          /\ UNCHANGED dbFaults
       \/ /\ DbFails
          /\ emitCall' = [emitCall EXCEPT ![c].pc = "raised",
                ![c].client = None, ![c].credential = None,
                ![c].failedAt = Some("getCredential"),
                ![c].thrown = Some(MakeError(DbMessage))]
    /\ UNCHANGED <<credentials, configEdits, emitted_events, statusHistory, rowCreator,
                   sentEmits, pollVars, jobVars, fnVars, mapVars>>

\* const [eventRecord] = await this.pg.insertInto(...).values({... status: 'PENDING' ...})
EmitInsertPending(c) ==
    /\ emitCall[c].pc = "insert"
    /\ \/ /\ emitted_events' = InsertEvent(emitted_events,
                PendingRow(emitCall[c].orgId, emitCall[c].coopActionId))
          /\ statusHistory' = Recorded(emitted_events')
          /\ rowCreator' = Append(rowCreator, c)
          /\ emitCall' = [emitCall EXCEPT ![c].pc = "callClient",
                ![c].eventRecord = Some(Len(emitted_events) + 1)]
          /\ UNCHANGED dbFaults
       \/ /\ DbFails
          /\ emitCall' = [emitCall EXCEPT ![c].pc = "raised",
                ![c].client = None, ![c].credential = None,
                ![c].failedAt = Some("insert"),
                ![c].thrown = Some(MakeError(DbMessage))]
          /\ UNCHANGED <<emitted_events, statusHistory, rowCreator>>
    /\ UNCHANGED <<credentials, configEdits, sentEmits, pollVars, jobVars, fnVars, mapVars>>

\* emitEvent that does not await client.emitEvent before the SUCCESS update
EmitCallClient_NoAwait(c) ==
    /\ emitCall[c].pc = "callClient"
    /\ emitCall[c].credential # None
    /\ sentEmits' = sentEmits \cup
          { [call |-> c, orgId |-> emitCall[c].orgId,
             serviceUrl |-> Val(emitCall[c].client).serviceUrl,
             token |-> createServiceAuthToken(Val(emitCall[c].client), now),
             createdBy |-> Val(emitCall[c].credential).did] }
    /\ emitCall' = [emitCall EXCEPT ![c].pc = "markSuccess", ![c].http = "inflight"]
    /\ UNCHANGED <<credentials, configEdits, emitted_events, statusHistory, rowCreator,
                   dbFaults, pollVars, jobVars, fnVars, mapVars>>

\* client.emitEvent({event, subject, createdBy: credential.did}) up to fetchHTTP
EmitCallClient(c) ==
    /\ emitCall[c].pc = "callClient"
    /\ LET call == emitCall[c]
           config == Val(call.client) IN
       \/ /\ call.credential = None
          /\ emitCall' = [emitCall EXCEPT ![c].pc = "catch",
                ![c].e = Some(MakeError(NullDidMessage))]
          /\ UNCHANGED sentEmits
       \/ /\ call.credential # None
          /\ ~KeyImports(config.signingKey)
          /\ emitCall' = [emitCall EXCEPT ![c].pc = "catch",
                ![c].e = Some(MakeError(MintMessage))]
          /\ UNCHANGED sentEmits
       \/ /\ call.credential # None
          /\ KeyImports(config.signingKey)
          /\ sentEmits' = sentEmits \cup
                { [call |-> c, orgId |-> call.orgId, serviceUrl |-> config.serviceUrl,
                   token |-> createServiceAuthToken(config, now),
                   createdBy |-> Val(call.credential).did] }
          /\ emitCall' = [emitCall EXCEPT ![c].pc = "awaitResponse", ![c].http = "inflight"]
    /\ UNCHANGED <<credentials, configEdits, emitted_events, statusHistory, rowCreator,
                   dbFaults, pollVars, jobVars, fnVars, mapVars>>

\* fetchHTTP settles: a response with a status, or a rejection
EmitResponse(c) ==
    /\ emitCall[c].pc = "awaitResponse"
    /\ \/ \E status \in HttpStatuses :
            IF ResponseOk(status)
            THEN emitCall' = [emitCall EXCEPT ![c].pc = "markSuccess",
                    ![c].http = "settled", ![c].status = Some(status)]
            ELSE emitCall' = [emitCall EXCEPT ![c].pc = "catch",
                    ![c].http = "settled", ![c].status = Some(status),
                    ![c].e = Some(MakeError(EmitFailedMessage(status)))]
       \/ emitCall' = [emitCall EXCEPT ![c].pc = "catch", ![c].http = "settled",
                ![c].e = Some(MakeError(TransportMessage))]
    /\ UNCHANGED <<credentials, configEdits, emitted_events, statusHistory, rowCreator,
                   sentEmits, dbFaults, pollVars, jobVars, fnVars, mapVars>>

\* emitEvent that returns without the SUCCESS update
EmitMarkSuccess_SkipUpdate(c) ==
    /\ emitCall[c].pc = "markSuccess"
    /\ emitCall' = [emitCall EXCEPT ![c].pc = "returned",
                ![c].client = None, ![c].credential = None]
    /\ UNCHANGED <<credentials, configEdits, emitted_events, statusHistory, rowCreator,
                   sentEmits, dbFaults, pollVars, jobVars, fnVars, mapVars>>

\* await this.pg.updateTable(...).set({status: 'SUCCESS', ozone_response}).where('id','=',id)
EmitMarkSuccess(c) ==
    /\ emitCall[c].pc = "markSuccess"
    /\ \/ /\ emitted_events' = SetSuccess(emitted_events, Val(emitCall[c].eventRecord),
                                          "response")
          /\ statusHistory' = Recorded(emitted_events')
          /\ emitCall' = [emitCall EXCEPT ![c].pc = "returned",
                ![c].client = None, ![c].credential = None]
          /\ UNCHANGED dbFaults
       \/ /\ DbFails
          /\ emitCall' = [emitCall EXCEPT ![c].pc = "catch",
                ![c].failedAt = Some("markSuccess"),
                ![c].e = Some(MakeError(DbMessage))]
          /\ UNCHANGED <<emitted_events, statusHistory>>
    /\ UNCHANGED <<credentials, configEdits, rowCreator, sentEmits, pollVars, jobVars, fnVars, mapVars>>

\* a catch that rethrows without recording the failure
EmitCatch_NoMark(c) ==
    /\ emitCall[c].pc = "catch"
    /\ emitCall' = [emitCall EXCEPT ![c].pc = "raised",
                ![c].client = None, ![c].credential = None, ![c].thrown = emitCall[c].e]
    /\ UNCHANGED <<credentials, configEdits, emitted_events, statusHistory, rowCreator,
                   sentEmits, dbFaults, pollVars, jobVars, fnVars, mapVars>>

\* catch (e) { await update({status: 'RETRYABLE_ERROR', error: message}); throw e; }
EmitCatch(c) ==
    /\ emitCall[c].pc = "catch"
    /\ LET e == Val(emitCall[c].e) IN
       \/ /\ emitted_events' = SetRetryable(emitted_events, Val(emitCall[c].eventRecord),
                                            MessageOf(e))
          /\ statusHistory' = Recorded(emitted_events')
          /\ emitCall' = [emitCall EXCEPT ![c].pc = "raised",
                ![c].client = None, ![c].credential = None, ![c].thrown = Some(e)]
          /\ UNCHANGED dbFaults
       \/ /\ DbFails
          /\ emitCall' = [emitCall EXCEPT ![c].pc = "raised",
                ![c].client = None, ![c].credential = None,
                ![c].failedAt = Some("catch"),
                ![c].thrown = Some(MakeError(DbMessage))]
          /\ UNCHANGED <<emitted_events, statusHistory>>
    /\ UNCHANGED <<credentials, configEdits, rowCreator, sentEmits, pollVars, jobVars, fnVars, mapVars>>

NextEmit ==
    \/ \E orgId \in Orgs, cr \in Credentials : SetCredential(orgId, cr)
    \/ \E orgId \in Orgs : RemoveCredential(orgId)
    \/ \E c \in EmitCalls, orgId \in Orgs, a \in ActionIds : EmitGetClient(c, orgId, a)
    \/ \E c \in EmitCalls : EmitGetCredential(c)
    \/ \E c \in EmitCalls : EmitInsertPending(c)
    \/ \E c \in EmitCalls : EmitCallClient(c)
    \/ \E c \in EmitCalls : EmitResponse(c)
    \/ \E c \in EmitCalls : EmitMarkSuccess(c)
    \/ \E c \in EmitCalls : EmitCatch(c)

SpecEmit ==
    Init /\ [][NextEmit]_vars

\* ------------------------------------------------------------------------
\* Sync state table ozone_service.event_sync_state
\* ------------------------------------------------------------------------
\* a test that takes every response as carrying a cursor
Truthy_Always(o) ==
    TRUE

\* JavaScript truthiness of an optional string: if (response.cursor)
Truthy(o) ==
    o # None /\ Val(o) # ""

\* the stored cursor a reader of the table sees for an org
CursorOf(table, orgId) ==
    IF table[orgId] = None THEN None ELSE Val(table[orgId]).last_synced_cursor

\* updateSyncState whose conflict clause does nothing
updateSyncState_InsertOnly(table, orgId, state, callTime, dbTime) ==
    IF table[orgId] = None
    THEN [table EXCEPT ![orgId] = Some(
            [last_synced_cursor |-> IF state.lastSyncedCursor = None THEN None
                                    ELSE Val(state.lastSyncedCursor),
             last_synced_at |-> IF state.lastSyncedAt = None THEN None
                                ELSE Val(state.lastSyncedAt),
             sync_enabled |-> IF state.syncEnabled = None THEN TRUE
                              ELSE Val(state.syncEnabled),
             updated_at |-> dbTime])]
    ELSE table

\* updateSyncState whose conflict clause sets every column from the values
\* of the insert
updateSyncState_SetAll(table, orgId, state, callTime, dbTime) ==
    [table EXCEPT ![orgId] = Some(
        [last_synced_cursor |-> IF state.lastSyncedCursor = None THEN None
                                ELSE Val(state.lastSyncedCursor),
         last_synced_at |-> IF state.lastSyncedAt = None THEN None
                            ELSE Val(state.lastSyncedAt),
         sync_enabled |-> IF state.syncEnabled = None THEN TRUE
                          ELSE Val(state.syncEnabled),
         updated_at |-> callTime])]

\* updateSyncState(orgId, state) with state: Partial<Omit<OzoneSyncState,'orgId'>>.
\* A field of state is None when undefined and Some(v) when provided, v being
\* itself optional for the nullable columns.
updateSyncState(table, orgId, state, callTime, dbTime) ==
    IF table[orgId] = None
    THEN [table EXCEPT ![orgId] = Some(
            [last_synced_cursor |-> IF state.lastSyncedCursor = None THEN None
                                    ELSE Val(state.lastSyncedCursor),
             last_synced_at |-> IF state.lastSyncedAt = None THEN None
                                ELSE Val(state.lastSyncedAt),
             sync_enabled |-> IF state.syncEnabled = None THEN TRUE
                              ELSE Val(state.syncEnabled),
             updated_at |-> dbTime])]
    ELSE [table EXCEPT ![orgId] = Some(
            [last_synced_cursor |-> IF state.lastSyncedCursor = None
                                    THEN Val(table[orgId]).last_synced_cursor
                                    ELSE Val(state.lastSyncedCursor),
             last_synced_at |-> IF state.lastSyncedAt = None
                                THEN Val(table[orgId]).last_synced_at
                                ELSE Val(state.lastSyncedAt),
             sync_enabled |-> IF state.syncEnabled = None
                              THEN Val(table[orgId]).sync_enabled
                              ELSE Val(state.syncEnabled),
             updated_at |-> callTime])]

\* the cursor history after the table went from its current content to table
Observed(table) ==
    [o \in Orgs |->
        IF CursorOf(table, o) = CursorOf(event_sync_state, o)
        THEN cursorHistory[o]
        ELSE Append(cursorHistory[o], CursorOf(table, o))]

\* a cursor update that takes the id of the last event instead of response.cursor
CursorUpdate_FromLastEvent(response, at) ==
    [lastSyncedCursor |-> IF response.events = <<>> THEN Some(response.cursor)
                          ELSE Some(Some(response.events[Len(response.events)])),
     lastSyncedAt |-> Some(Some(at)),
     syncEnabled |-> None]

\* a cursor update that leaves lastSyncedAt out
CursorUpdate_NoSyncedAt(response, at) ==
    [lastSyncedCursor |-> Some(response.cursor),
     lastSyncedAt |-> None,
     syncEnabled |-> None]

\* a cursor update that takes the id of the first event of the page
CursorUpdate_FirstEvent(response, at) ==
    [lastSyncedCursor |-> IF response.events = <<>> THEN Some(response.cursor)
                          ELSE Some(Some(ToString(response.events[1].id))),
     lastSyncedAt |-> Some(Some(at)),
     syncEnabled |-> None]

\* {lastSyncedCursor: response.cursor, lastSyncedAt: new Date()}
CursorUpdate(response, at) ==
    [lastSyncedCursor |-> Some(response.cursor),
     lastSyncedAt |-> Some(Some(at)),
     syncEnabled |-> None]

\* an operator enables or disables sync: updateSyncState(orgId, {syncEnabled})
AdminSetSyncEnabled(orgId, enabled) ==
    /\ configEdits < MaxConfigEdits
    /\ configEdits' = configEdits + 1
    /\ event_sync_state' = updateSyncState(event_sync_state, orgId,
          [lastSyncedCursor |-> None, lastSyncedAt |-> None, syncEnabled |-> Some(enabled)],
          now, now)
    /\ cursorHistory' = Observed(event_sync_state')
    /\ now' = now + 1
    /\ UNCHANGED <<credentials, emitVars, jobVars, fnVars, mapVars, dbFaults, pollCall, sentQueries, returnedCursors>>

\* ------------------------------------------------------------------------
\* OzoneService.pollEvents
\* ------------------------------------------------------------------------
\* {events: [], newCursor: undefined}
EmptyResult ==
    [events |-> <<>>, newCursor |-> None]

\* a pollEvents call that has settled: its locals are gone, its outcome stays
Completed(call, result, thrown) ==
    [IdlePoll EXCEPT !.pc = IF thrown = None THEN "returned" ELSE "raised",
                     !.orgId = call.orgId, !.overlap = call.overlap,
                     !.result = result, !.thrown = thrown]

\* polls of the same org that have started and not completed
InFlightPolls(orgId) ==
    {q \in PollCalls : /\ pollCall[q].pc \notin {"idle", "returned", "raised"}
                       /\ pollCall[q].orgId = orgId}

\* pollEvents(orgId) up to: const client = await this.getClient(orgId);
\* if (!client) return {events: [], newCursor: undefined}
PollGetClient(p, orgId) ==
    /\ pollCall[p].pc = "idle"
    /\ \A q \in PollCalls : q < p => pollCall[q].pc # "idle"
    /\ LET call == [IdlePoll EXCEPT !.orgId = orgId, !.overlap = InFlightPolls(orgId)] IN
       \/ /\ credentials[orgId] = None
          /\ pollCall' = [pollCall EXCEPT ![p] =
                [call EXCEPT !.pc = "returned", !.result = Some(EmptyResult)]]
          /\ UNCHANGED dbFaults
       \/ /\ credentials[orgId] # None
          /\ pollCall' = [pollCall EXCEPT ![p] =
                [call EXCEPT !.pc = "getSyncState",
                             !.client = Some(OzoneApiClient(Val(credentials[orgId])))]]
          /\ UNCHANGED dbFaults
       \/ /\ DbFails
          /\ pollCall' = [pollCall EXCEPT ![p] =
                [call EXCEPT !.pc = "raised", !.thrown = Some(MakeError(DbMessage))]]
    /\ UNCHANGED <<credentials, configEdits, emitVars, jobVars, fnVars, mapVars, event_sync_state, cursorHistory,
                   sentQueries, returnedCursors, now>>

\* a sync-state check that only tests that the row exists
PollGetSyncState_IgnoreEnabled(p) ==
    /\ pollCall[p].pc = "getSyncState"
    /\ LET row == event_sync_state[pollCall[p].orgId] IN
       \/ /\ row = None
          /\ pollCall' = [pollCall EXCEPT ![p] = Completed(@, Some(EmptyResult), None)]
          /\ UNCHANGED dbFaults
       \/ /\ row # None
          /\ pollCall' = [pollCall EXCEPT ![p].pc = "queryEvents", ![p].syncState = row]
          /\ UNCHANGED dbFaults
       \/ /\ DbFails
          /\ pollCall' = [pollCall EXCEPT ![p] = Completed(@, None, Some(MakeError(DbMessage)))]
    /\ UNCHANGED <<credentials, configEdits, emitVars, jobVars, fnVars, mapVars, event_sync_state, cursorHistory,
                   sentQueries, returnedCursors, now>>

\* const syncState = await this.getSyncState(orgId);
\* if (!syncState?.syncEnabled) return {events: [], newCursor: undefined}
PollGetSyncState(p) ==
    /\ pollCall[p].pc = "getSyncState"
    /\ LET row == event_sync_state[pollCall[p].orgId] IN
       \/ /\ IF row = None THEN TRUE ELSE ~Val(row).sync_enabled
          /\ pollCall' = [pollCall EXCEPT ![p] = Completed(@, Some(EmptyResult), None)]
          /\ UNCHANGED dbFaults
       \/ /\ row # None
          /\ Val(row).sync_enabled
          /\ pollCall' = [pollCall EXCEPT ![p].pc = "queryEvents", ![p].syncState = row]
          /\ UNCHANGED dbFaults
       \/ /\ DbFails
          /\ pollCall' = [pollCall EXCEPT ![p] = Completed(@, None, Some(MakeError(DbMessage)))]
    /\ UNCHANGED <<credentials, configEdits, emitVars, jobVars, fnVars, mapVars, event_sync_state, cursorHistory,
                   sentQueries, returnedCursors, now>>

\* a query string that never carries the cursor
QueryParams_NoCursor(lastSyncedCursor) ==
    [cursor |-> None,
     limit |-> 100,
     sortDirection |-> "asc"]

\* the query string OzoneApiClient.queryEvents builds:
\* if (params.cursor) url.searchParams.set('cursor', params.cursor); limit; sortDirection
QueryParams(lastSyncedCursor) ==
    [cursor |-> IF Truthy(lastSyncedCursor) THEN lastSyncedCursor ELSE None,
     limit |-> 100,
     sortDirection |-> "asc"]

\* client.queryEvents({cursor: syncState.lastSyncedCursor ?? undefined, limit: 100,
\* sortDirection: 'asc'}) up to fetchHTTP
PollQueryEvents(p) ==
    /\ pollCall[p].pc = "queryEvents"
    /\ LET call == pollCall[p]
           config == Val(call.client) IN
       \/ /\ ~KeyImports(config.signingKey)
          /\ pollCall' = [pollCall EXCEPT ![p] = Completed(@, None, Some(MakeError(MintMessage)))]
          /\ UNCHANGED sentQueries
       \/ /\ KeyImports(config.signingKey)
          /\ sentQueries' = sentQueries \cup
                { [call |-> p, orgId |-> call.orgId, serviceUrl |-> config.serviceUrl,
                   token |-> createServiceAuthToken(config, now),
                   params |-> QueryParams(Val(call.syncState).last_synced_cursor)] }
          /\ pollCall' = [pollCall EXCEPT ![p].pc = "awaitResponse"]
    /\ UNCHANGED <<credentials, configEdits, emitVars, jobVars, fnVars, mapVars, dbFaults, event_sync_state,
                   cursorHistory, returnedCursors, now>>

\* a 2xx response arrives: if (response.cursor) updateSyncState(...) is
\* started with lastSyncedAt: new Date(), otherwise pollEvents returns.
\* Reading the clock advances it: later reads see later times.
PollReceives(p, response) ==
    /\ returnedCursors' = [returnedCursors EXCEPT ![pollCall[p].orgId] =
          @ \cup (IF response.cursor = None THEN {} ELSE {Val(response.cursor)})]
    /\ now' = IF Truthy(response.cursor) THEN now + 1 ELSE now
    /\ IF Truthy(response.cursor)
       THEN pollCall' = [pollCall EXCEPT ![p].pc = "updateSyncState",
                ![p].response = Some(response), ![p].at = now]
       ELSE pollCall' = [pollCall EXCEPT ![p] =
                Completed(@, Some([events |-> response.events,
                                   newCursor |-> response.cursor]), None)]

\* a non-2xx response arrives, or fetchHTTP rejects
PollRequestFails(p) ==
    /\ \/ \E status \in HttpStatuses :
            /\ ~ResponseOk(status)
            /\ pollCall' = [pollCall EXCEPT ![p] =
                  Completed(@, None, Some(MakeError(QueryFailedMessage(status))))]
       \/ pollCall' = [pollCall EXCEPT ![p] =
                Completed(@, None, Some(MakeError(TransportMessage)))]
    /\ UNCHANGED <<returnedCursors, now>>

\* fetchHTTP settles, the labeler answering with any of the bodies of Responses
PollResponse(p) ==
    /\ pollCall[p].pc = "awaitResponse"
    /\ \/ \E response \in Responses : PollReceives(p, response)
       \/ PollRequestFails(p)
    /\ UNCHANGED <<credentials, configEdits, emitVars, jobVars, fnVars, mapVars, dbFaults, event_sync_state,
                   cursorHistory, sentQueries>>

\* an upsert that is applied although its statement is reported as failed
PollUpdateSyncState_WriteThenFail(p) ==
    /\ pollCall[p].pc = "updateSyncState"
    /\ LET call == pollCall[p]
           response == Val(call.response) IN
       \/ /\ event_sync_state' = updateSyncState(event_sync_state, call.orgId,
                CursorUpdate(response, call.at), call.at, now)
          /\ cursorHistory' = Observed(event_sync_state')
          /\ pollCall' = [pollCall EXCEPT ![p] =
                Completed(@, Some([events |-> response.events,
                                   newCursor |-> response.cursor]), None)]
          /\ UNCHANGED dbFaults
       \/ /\ DbFails
          /\ event_sync_state' = updateSyncState(event_sync_state, call.orgId,
                CursorUpdate(response, call.at), call.at, now)
          /\ cursorHistory' = Observed(event_sync_state')
          /\ pollCall' = [pollCall EXCEPT ![p] = Completed(@, None, Some(MakeError(DbMessage)))]
    /\ UNCHANGED <<credentials, configEdits, emitVars, jobVars, fnVars, mapVars, sentQueries, returnedCursors, now>>

\* await this.updateSyncState(orgId, {lastSyncedCursor, lastSyncedAt});
\* return {events: response.events, newCursor: response.cursor}
PollUpdateSyncState(p) ==
    /\ pollCall[p].pc = "updateSyncState"
    /\ LET call == pollCall[p]
           response == Val(call.response) IN
       \/ /\ event_sync_state' = updateSyncState(event_sync_state, call.orgId,
                CursorUpdate(response, call.at), call.at, now)
          /\ cursorHistory' = Observed(event_sync_state')
          /\ pollCall' = [pollCall EXCEPT ![p] =
                Completed(@, Some([events |-> response.events,
                                   newCursor |-> response.cursor]), None)]
          /\ UNCHANGED dbFaults
       \/ /\ DbFails
          /\ pollCall' = [pollCall EXCEPT ![p] = Completed(@, None, Some(MakeError(DbMessage)))]
          /\ UNCHANGED <<event_sync_state, cursorHistory>>
    /\ UNCHANGED <<credentials, configEdits, emitVars, jobVars, fnVars, mapVars, sentQueries, returnedCursors, now>>

NextPoll ==
    \/ \E orgId \in Orgs, cr \in Credentials : SetCredential(orgId, cr)
    \/ \E orgId \in Orgs : RemoveCredential(orgId)
    \/ \E orgId \in Orgs, enabled \in BOOLEAN : AdminSetSyncEnabled(orgId, enabled)
    \/ \E p \in PollCalls, orgId \in Orgs : PollGetClient(p, orgId)
    \/ \E p \in PollCalls : PollGetSyncState(p)
    \/ \E p \in PollCalls : PollQueryEvents(p)
    \/ \E p \in PollCalls : PollResponse(p)
    \/ \E p \in PollCalls : PollUpdateSyncState(p)

SpecPoll ==
    Init /\ [][NextPoll]_vars

\* ------------------------------------------------------------------------
\* Moderation events and OzoneService.classifyEvent
\* ------------------------------------------------------------------------
\* Strings the code takes apart are sequences of fragments: an event $type is
\* <<lexicon, "#", name>>, a DID is <<"did:", rest>>, an AT URI is
\* <<"at://", authority fragments..., path>>.
RepoRef(did) ==
    [type |-> "com.atproto.admin.defs#repoRef", did |-> did]
StrongRef(uri) ==
    [type |-> "com.atproto.repo.strongRef", uri |-> uri, cid |-> "bafy"]
EventType(name) ==
    <<"tools.ozone.moderation.defs", "#", name>>
\* an OzoneModerationEvent
Event(id, name, subject, comment, createLabelVals) ==
    [id |-> id, type |-> EventType(name), subject |-> subject, comment |-> comment,
     createLabelVals |-> createLabelVals,
     createdBy |-> "did:plc:moderator", createdAt |-> <<"2026-02-09T00:00:", id, "Z">>]

\* the event stream of each tenant's labeler, oldest first; event 41 is a
\* body the labeler sent without subject.uri (response bodies are not validated)
Stream(orgId) ==
    IF orgId = "org1"
    THEN << Event(41, "modEventReport", [type |-> "com.atproto.repo.strongRef"],
                  None, None),
            Event(42, "modEventReport", RepoRef(<<"did:", "plc:alice">>), None, None),
            Event(43, "modEventTakedown", RepoRef(<<"did:", "plc:alice">>),
                  Some("removed"), None),
            Event(44, "modEventLabel",
                  StrongRef(<<"at://", "did:", "plc:bob", "/app.bsky.feed.post/1">>),
                  None, Some(<<"spam", "nsfw">>)) >>
    ELSE << Event(51, "modEventEscalate", RepoRef(<<"did:", "plc:carol">>),
                  Some("urgent"), None),
            Event(52, "modEventEscalate",
                  StrongRef(<<"at://", "bob.bsky.social", "/app.bsky.feed.post/2">>),
                  None, None),
            Event(53, "modEventAcknowledge", RepoRef(<<"did:", "plc:carol">>), None, None),
            Event(54, "modEventComment", RepoRef(<<"did:", "plc:carol">>),
                  Some("note"), None) >>
EventIds ==
    {41, 42, 43, 44, 51, 52, 53, 54}
\* the events of a stream with the given ids
EventOf(orgId, id) ==
    LET st == Stream(orgId) IN
    st[CHOOSE i \in DOMAIN st : st[i].id = id]

\* a variant that looks for modEventLabel before modEventTakedown
ozoneEventTypeToCoopCategory_LabelFirst(type) ==
    IF Contains(type, "modEventReport") THEN Some("REPORT")
    ELSE IF Contains(type, "modEventLabel") THEN Some("LABEL")
    ELSE IF Contains(type, "modEventTakedown") THEN Some("TAKEDOWN")
    ELSE IF Contains(type, "modEventComment") THEN Some("COMMENT")
    ELSE IF Contains(type, "modEventEscalate") THEN Some("ESCALATE")
    ELSE None

\* ozoneEventTypeToCoopCategory: the first of the five names the $type includes
ozoneEventTypeToCoopCategory(type) ==
    IF Contains(type, "modEventReport") THEN Some("REPORT")
    ELSE IF Contains(type, "modEventTakedown") THEN Some("TAKEDOWN")
    ELSE IF Contains(type, "modEventLabel") THEN Some("LABEL")
    ELSE IF Contains(type, "modEventComment") THEN Some("COMMENT")
    ELSE IF Contains(type, "modEventEscalate") THEN Some("ESCALATE")
    ELSE None

\* uri.match(/^at:\/\/(did:[^/]+)/): the DID an AT URI starts with
MatchDid(uri) ==
    IF Len(uri) >= 3 /\ uri[1] = "at://" /\ uri[2] = "did:" /\ uri[3] # ""
    THEN Some(<<uri[2], uri[3]>>)
    ELSE None

\* event.subject.uri.match(...) with uri undefined: classifyEvent throws a TypeError
ClassifyThrows(event) ==
    /\ event.subject.type = "com.atproto.repo.strongRef"
    /\ "uri" \notin DOMAIN event.subject
ClassifyMessage ==
    <<"Cannot read properties of undefined (reading 'match')">>

\* OzoneService.classifyEvent, for the events it does not throw on
classifyEvent(event) ==
    [category |-> ozoneEventTypeToCoopCategory(event.type),
     labels |-> IF event.createLabelVals = None THEN <<>> ELSE Val(event.createLabelVals),
     comment |-> event.comment,
     subjectDid |-> IF event.subject.type = "com.atproto.admin.defs#repoRef"
                    THEN Some(event.subject.did)
                    ELSE IF event.subject.type = "com.atproto.repo.strongRef"
                    THEN MatchDid(event.subject.uri)
                    ELSE None,
     subjectUri |-> IF event.subject.type = "com.atproto.repo.strongRef"
                    THEN Some(event.subject.uri)
                    ELSE None]

\* new Date(event.createdAt): the instant an ISO string denotes
ParseDate(createdAt) ==
    IF Len(createdAt) = 3 /\ createdAt[1] = "2026-02-09T00:00:" /\ createdAt[3] = "Z"
    THEN [time |-> createdAt[2]]
    ELSE [time |-> "Invalid Date"]

\* labels.join(', ')
RECURSIVE Join(_)
Join(labels) ==
    IF labels = <<>> THEN <<>>
    ELSE IF Len(labels) = 1 THEN labels
    ELSE <<Head(labels), ", ">> \o Join(Tail(labels))

\* category.toLowerCase()
ToLowerCase(category) ==
    IF category = "REPORT" THEN "report"
    ELSE IF category = "LABEL" THEN "label"
    ELSE IF category = "ESCALATE" THEN "escalate"
    ELSE IF category = "TAKEDOWN" THEN "takedown"
    ELSE "comment"

\* ------------------------------------------------------------------------
\* The labeler behind queryEvents (mockOzoneServer)
\* ------------------------------------------------------------------------
\* events the labeler puts in one page
PageSize ==
    2
\* Number(req.query.cursor), 0 without a cursor
NumberOf(cursor) ==
    IF cursor = None THEN 0
    ELSE IF \E id \in EventIds : ToString(id) = Val(cursor)
    THEN CHOOSE id \in EventIds : ToString(id) = Val(cursor)
    ELSE 0
\* a labeler that starts over from the first event when nothing follows the cursor
Page_Wrapping(orgId, cursor) ==
    LET filtered == SelectSeq(Stream(orgId), LAMBDA e : e.id > NumberOf(cursor))
        from == IF filtered = <<>> THEN Stream(orgId) ELSE filtered IN
    SubSeq(from, 1, IF Len(from) < PageSize THEN Len(from) ELSE PageSize)
\* seededEvents.filter(e => e.id > cursor).slice(0, limit)
Page(orgId, cursor) ==
    LET filtered == SelectSeq(Stream(orgId), LAMBDA e : e.id > NumberOf(cursor)) IN
    SubSeq(filtered, 1, IF Len(filtered) < PageSize THEN Len(filtered) ELSE PageSize)
\* {cursor: page.length > 0 ? String(page[page.length - 1].id) : undefined, events: page}
PageResponse(page) ==
    [cursor |-> IF page = <<>> THEN None ELSE Some(ToString(page[Len(page)].id)),
     events |-> page]

\* ------------------------------------------------------------------------
\* OzoneEventPollingJob
\* ------------------------------------------------------------------------
\* the job runs its pollEvents calls one at a time, in this record of pollCall
JobPoll ==
    1

\* both tenants have a credential and sync enabled when the job starts
JobCredentials ==
    [o \in Orgs |-> Some([serviceUrl |-> IF o = "org1" THEN "https://ozone.one"
                                          ELSE "https://ozone.two",
                          did |-> "did:plc:coop1", signingKey |-> GoodKey])]
JobSyncState ==
    [o \in Orgs |-> Some(EnabledRow)]

InitJob ==
    /\ InitJobVars
    /\ InitFnVars
    /\ InitMapVars
    /\ credentials = JobCredentials
    /\ configEdits = 0
    /\ emitted_events = <<>>
    /\ statusHistory = <<>>
    /\ rowCreator = <<>>
    /\ emitCall = [c \in EmitCalls |-> IdleEmit]
    /\ sentEmits = {}
    /\ dbFaults = 0
    /\ event_sync_state = JobSyncState
    /\ cursorHistory = [o \in Orgs |-> <<None>>]
    /\ pollCall = [p \in PollCalls |-> IdlePoll]
    /\ sentQueries = {}
    /\ returnedCursors = [o \in Orgs |-> {}]
    /\ now = 0

\* a listing that leaves out the test of sync_enabled: every row is listed
EnabledOrgLists_AllRows ==
    LET rows == {o \in Orgs : event_sync_state[o] # None} IN
    {l \in UNION {[1..n -> rows] : n \in 0..Cardinality(rows)} :
        /\ Len(l) = Cardinality(rows)
        /\ \A i, k \in DOMAIN l : i # k => l[i] # l[k]}

\* getOrgIdsWithSyncEnabled: the org ids of the rows with sync_enabled, in any order
EnabledOrgLists ==
    LET enabled == {o \in Orgs : IF event_sync_state[o] = None THEN FALSE
                                 ELSE Val(event_sync_state[o]).sync_enabled} IN
    {l \in UNION {[1..n -> enabled] : n \in 0..Cardinality(enabled)} :
        /\ Len(l) = Cardinality(enabled)
        /\ \A i, k \in DOMAIN l : i # k => l[i] # l[k]}

\* a loop over the tenants that does not look at the signal
ForOrgs_NoBreak(j) ==
    [j EXCEPT !.pc = IF j.orgIds = <<>> THEN "sleep" ELSE "pollEvents",
              !.orgId = IF j.orgIds = <<>> THEN None ELSE Some(Head(j.orgIds)),
              !.orgIds = IF j.orgIds = <<>> THEN j.orgIds ELSE Tail(j.orgIds),
              !.polled = IF j.orgIds = <<>> THEN j.polled
                         ELSE Append(j.polled, Head(j.orgIds)),
              !.events = <<>>, !.event = None, !.classified = None, !.item = None]

\* for (const orgId of orgIds) { if (signal?.aborted) break; await pollOrg(orgId); }
\* followed by await sleep(pollIntervalMs) when the loop is left
ForOrgs(j) ==
    [j EXCEPT !.pc = IF j.orgIds = <<>> \/ aborted THEN "sleep" ELSE "pollEvents",
              !.broke = j.broke \/ (j.orgIds # <<>> /\ aborted),
              !.orgId = IF j.orgIds = <<>> \/ aborted THEN None ELSE Some(Head(j.orgIds)),
              !.orgIds = IF j.orgIds = <<>> \/ aborted THEN j.orgIds ELSE Tail(j.orgIds),
              !.polled = IF j.orgIds = <<>> \/ aborted THEN j.polled
                         ELSE Append(j.polled, Head(j.orgIds)),
              !.events = <<>>, !.event = None, !.classified = None, !.item = None]

\* a loop over the events that starts at the end of the batch
ForEvents_LastFirst(j) ==
    IF j.events = <<>> THEN ForOrgs(j)
    ELSE [j EXCEPT !.pc = "processEvent", !.event = Some(j.events[Len(j.events)]),
                   !.events = SubSeq(j.events, 1, Len(j.events) - 1),
                   !.classified = None, !.item = None]

\* for (const event of events) { try { await processEvent(orgId, event) } catch ... }
\* followed by the return of pollOrg when the loop is left
ForEvents(j) ==
    IF j.events = <<>> THEN ForOrgs(j)
    ELSE [j EXCEPT !.pc = "processEvent", !.event = Some(Head(j.events)),
                   !.events = Tail(j.events), !.classified = None, !.item = None]

\* handled after processEvent is called for the event of job state j: its id,
\* whether the stored cursor already covers it, and that it has not failed
HandedOver(h, j) ==
    IF j.pc = "processEvent"
    THEN [h EXCEPT ![Val(j.orgId)] = Append(@,
            [id |-> Val(j.event).id,
             advanced |-> NumberOf(CursorOf(event_sync_state, Val(j.orgId))) >= Val(j.event).id,
             failed |-> FALSE])]
    ELSE h

\* handled after the processEvent call of job state j has thrown
MarkFailed(h, j) ==
    [h EXCEPT ![Val(j.orgId)] = [@ EXCEPT ![Len(@)].failed = TRUE]]

\* while (!signal?.aborted) { try { orgIds = await getOrgIdsWithSyncEnabled() ...
WhileNotAborted(j) ==
    IF aborted THEN [j EXCEPT !.pc = "stopped"]
    ELSE [j EXCEPT !.pc = "listOrgs", !.cycle = j.cycle + 1, !.listed = None,
                   !.polled = <<>>, !.broke = FALSE]

\* the values process.env.OZONE_POLL_ENABLED can have: unset, or a string
PollEnabledEnv ==
    {None, Some("true"), Some("false"), Some("TRUE"), Some("1")}

\* an isEnabled that takes every value that is set for true
IsEnabled_AnySet(env) ==
    env # None

\* const isEnabled = process.env.OZONE_POLL_ENABLED === 'true'
IsEnabled(env) ==
    env = Some("true")

\* run(signal) of a job constructed with OZONE_POLL_ENABLED = env:
\* if (!isEnabled) return; otherwise the loop is entered
JobRun(env) ==
    /\ job.pc = "start"
    /\ job.cycle < MaxCycles
    /\ job' = IF IsEnabled(env) THEN [WhileNotAborted(job) EXCEPT !.env = env]
              ELSE [job EXCEPT !.pc = "disabled", !.env = env]
    /\ UNCHANGED <<credentials, configEdits, emitVars, mapVars, fnVars, pollVars, dbFaults,
                   aborted, enqueueCalls, handled, jobLog, crashes, disturbances, sleepTicks>>

\* a run() whose loop has no try/catch around the listing of the tenants
JobListOrgs_NoCatch ==
    /\ job.pc = "listOrgs"
    /\ \/ /\ \E orgIds \in EnabledOrgLists :
               job' = ForOrgs([job EXCEPT !.orgIds = orgIds, !.listed = Some(orgIds)])
          /\ UNCHANGED <<dbFaults, jobLog>>
       \/ /\ DbFails
          /\ job' = [job EXCEPT !.pc = "threw"]
          /\ UNCHANGED jobLog
    /\ UNCHANGED <<credentials, configEdits, emitVars, mapVars, fnVars, pollVars,
                   aborted, enqueueCalls, handled, crashes, disturbances, sleepTicks>>

\* await ozoneService.getOrgIdsWithSyncEnabled() settles; a rejection is caught
\* by the catch of the loop body, logged, and followed by the sleep
JobListOrgs ==
    /\ job.pc = "listOrgs"
    /\ \/ /\ \E orgIds \in EnabledOrgLists :
               job' = ForOrgs([job EXCEPT !.orgIds = orgIds, !.listed = Some(orgIds)])
          /\ UNCHANGED <<dbFaults, jobLog>>
       \/ /\ DbFails
          /\ job' = [job EXCEPT !.pc = "sleep"]
          /\ jobLog' = [jobLog EXCEPT !.loop = @ + 1]
    /\ UNCHANGED <<credentials, configEdits, emitVars, mapVars, fnVars, pollVars,
                   aborted, enqueueCalls, handled, crashes, disturbances, sleepTicks>>

\* a collaborator of the job (labeler, item-type lookup, review queue) does
\* not cooperate
Disturbed ==
    /\ disturbances < MaxDisturbances
    /\ disturbances' = disturbances + 1

\* the labeler answers the request of the job's pollEvents call with the page
\* after the cursor; or it leaves the cursor out of a page of events, or the
\* request fails
JobLabelerResponds ==
    /\ job.pc = "pollEvents"
    /\ pollCall[JobPoll].pc = "awaitResponse"
    /\ LET call == pollCall[JobPoll]
           params == QueryParams(Val(call.syncState).last_synced_cursor)
           page == Page(call.orgId, params.cursor) IN
       \/ /\ PollReceives(JobPoll, PageResponse(page))
          /\ UNCHANGED disturbances
       \/ /\ page # <<>>
          /\ Disturbed
          /\ PollReceives(JobPoll, [cursor |-> None, events |-> page])
       \/ /\ Disturbed
          /\ PollRequestFails(JobPoll)
    /\ UNCHANGED <<credentials, configEdits, emitVars, mapVars, fnVars, dbFaults, event_sync_state,
                   cursorHistory, sentQueries,
                   job, aborted, enqueueCalls, handled, jobLog, crashes, sleepTicks>>

\* the steps of the job's pollEvents call, other than the labeler's answer
JobPollStep ==
    /\ job.pc = "pollEvents"
    /\ \/ PollGetClient(JobPoll, Val(job.orgId))
       \/ PollGetSyncState(JobPoll)
       \/ PollQueryEvents(JobPoll)
       \/ PollUpdateSyncState(JobPoll)

\* a pollOrg without its outer try/catch: the error of pollEvents reaches the
\* catch of the loop in run(), which ends the cycle
JobPollSettled_NoCatch ==
    /\ job.pc = "pollEvents"
    /\ pollCall[JobPoll].pc \in {"returned", "raised"}
    /\ IF pollCall[JobPoll].pc = "raised"
       THEN /\ job' = [job EXCEPT !.pc = "sleep", !.orgId = None]
            /\ jobLog' = [jobLog EXCEPT !.loop = @ + 1]
       ELSE /\ job' = ForEvents([job EXCEPT !.events = Val(pollCall[JobPoll].result).events])
            /\ UNCHANGED jobLog
    /\ handled' = HandedOver(handled, job')
    /\ pollCall' = [pollCall EXCEPT ![JobPoll] = IdlePoll]
    /\ UNCHANGED <<credentials, configEdits, emitVars, mapVars, fnVars, dbFaults, event_sync_state,
                   cursorHistory, sentQueries, returnedCursors, now,
                   aborted, enqueueCalls, crashes, disturbances, sleepTicks>>

\* const {events} = await ozoneService.pollEvents(orgId) settles in pollOrg:
\* a rejection is caught and logged, an empty batch returns, otherwise the
\* loop over the events starts
JobPollSettled ==
    /\ job.pc = "pollEvents"
    /\ pollCall[JobPoll].pc \in {"returned", "raised"}
    /\ IF pollCall[JobPoll].pc = "raised"
       THEN /\ job' = ForOrgs(job)
            /\ jobLog' = [jobLog EXCEPT !.poll = @ + 1]
       ELSE /\ job' = ForEvents([job EXCEPT !.events = Val(pollCall[JobPoll].result).events])
            /\ UNCHANGED jobLog
    /\ handled' = HandedOver(handled, job')
    /\ pollCall' = [pollCall EXCEPT ![JobPoll] = IdlePoll]
    /\ UNCHANGED <<credentials, configEdits, emitVars, mapVars, fnVars, dbFaults, event_sync_state,
                   cursorHistory, sentQueries, returnedCursors, now,
                   aborted, enqueueCalls, crashes, disturbances, sleepTicks>>

\* a processEvent that treats ESCALATE like TAKEDOWN and COMMENT
JobProcessEvent_EscalateLogged ==
    /\ job.pc = "processEvent"
    /\ LET event == Val(job.event) IN
       IF ClassifyThrows(event)
       THEN /\ job' = ForEvents(job)
            /\ jobLog' = [jobLog EXCEPT !.event = @ + 1]
            /\ handled' = HandedOver(MarkFailed(handled, job), job')
       ELSE LET classified == classifyEvent(event) IN
            /\ job' = IF classified.category = None \/ classified.subjectDid = None
                      THEN ForEvents(job)
                      ELSE IF Val(classified.category) \in {"REPORT", "LABEL"}
                      THEN [job EXCEPT !.pc = "getItemTypes", !.classified = Some(classified)]
                      ELSE ForEvents(job)
            /\ UNCHANGED jobLog
            /\ handled' = HandedOver(handled, job')
    /\ UNCHANGED <<credentials, configEdits, emitVars, mapVars, fnVars, pollVars, dbFaults,
                   aborted, enqueueCalls, crashes, disturbances, sleepTicks>>

\* a processEvent whose guard tests the category and not the subjectDid
JobProcessEvent_DidUnchecked ==
    /\ job.pc = "processEvent"
    /\ LET event == Val(job.event) IN
       IF ClassifyThrows(event)
       THEN /\ job' = ForEvents(job)
            /\ jobLog' = [jobLog EXCEPT !.event = @ + 1]
            /\ handled' = HandedOver(MarkFailed(handled, job), job')
       ELSE LET classified == classifyEvent(event) IN
            /\ job' = IF classified.category = None
                      THEN ForEvents(job)
                      ELSE IF Val(classified.category) \in {"REPORT", "LABEL", "ESCALATE"}
                      THEN [job EXCEPT !.pc = "getItemTypes", !.classified = Some(classified)]
                      ELSE ForEvents(job)
            /\ UNCHANGED jobLog
            /\ handled' = HandedOver(handled, job')
    /\ UNCHANGED <<credentials, configEdits, emitVars, mapVars, fnVars, pollVars, dbFaults,
                   aborted, enqueueCalls, crashes, disturbances, sleepTicks>>

\* processEvent up to its first await: classifyEvent, the guard on category and
\* subjectDid, and the switch; REPORT, LABEL and ESCALATE call getItemTypes,
\* TAKEDOWN and COMMENT are logged; an error thrown by classifyEvent is caught
\* and logged by the loop of pollOrg
JobProcessEvent ==
    /\ job.pc = "processEvent"
    /\ LET event == Val(job.event) IN
       IF ClassifyThrows(event)
       THEN /\ job' = ForEvents(job)
            /\ jobLog' = [jobLog EXCEPT !.event = @ + 1]
            /\ handled' = HandedOver(MarkFailed(handled, job), job')
       ELSE LET classified == classifyEvent(event) IN
            /\ job' = IF classified.category = None \/ classified.subjectDid = None
                      THEN ForEvents(job)
                      ELSE IF Val(classified.category) \in {"REPORT", "LABEL", "ESCALATE"}
                      THEN [job EXCEPT !.pc = "getItemTypes", !.classified = Some(classified)]
                      ELSE ForEvents(job)
            /\ UNCHANGED jobLog
            /\ handled' = HandedOver(handled, job')
    /\ UNCHANGED <<credentials, configEdits, emitVars, mapVars, fnVars, pollVars, dbFaults,
                   aborted, enqueueCalls, crashes, disturbances, sleepTicks>>

\* the content types moderationConfigService.getItemTypes can find for an org
ContentTypes ==
    {None, Some([id |-> "it-1", version |-> "v1", schemaVariant |-> "original"])}

\* reason of the report: classified.comment ?? `Ozone ${category}: ${labels}` for
\* REPORT and LABEL, classified.comment ?? 'Escalated from Ozone' for ESCALATE
ReasonOf(classified) ==
    IF classified.comment # None THEN <<Val(classified.comment)>>
    ELSE IF Val(classified.category) = "ESCALATE" THEN <<"Escalated from Ozone">>
    ELSE <<"Ozone ", ToLowerCase(Val(classified.category)), ": ">> \o Join(classified.labels)

\* the argument of manualReviewToolService.enqueue for an event
EnqueueInput(orgId, event, classified, contentType) ==
    [orgId |-> orgId,
     eventId |-> event.id,
     itemId |-> classified.subjectDid,
     itemTypeIdentifier |-> contentType,
     reason |-> ReasonOf(classified),
     reportId |-> IF Val(classified.category) = "ESCALATE"
                  THEN <<"ozone-escalate-", event.id>> ELSE <<"ozone-", event.id>>,
     reportedAt |-> ParseDate(event.createdAt),
     createdAt |-> ParseDate(event.createdAt),
     enqueueSource |-> "REPORT"]

\* await moderationConfigService.getItemTypes(...) settles: without a suitable
\* content type processEvent returns, with one it calls enqueue; a rejection
\* is caught and logged by the loop of pollOrg
JobGetItemTypes ==
    /\ job.pc = "getItemTypes"
    /\ \/ \E contentType \in ContentTypes :
            /\ IF contentType = None
               THEN /\ Disturbed
                    /\ job' = ForEvents(job)
                    /\ UNCHANGED enqueueCalls
               ELSE LET input == EnqueueInput(Val(job.orgId), Val(job.event),
                                              Val(job.classified), Val(contentType)) IN
                    /\ job' = [job EXCEPT !.pc = "enqueue", !.item = input.itemId]
                    /\ enqueueCalls' = Append(enqueueCalls, input)
                    /\ UNCHANGED disturbances
            /\ UNCHANGED jobLog
            /\ handled' = HandedOver(handled, job')
       \/ /\ Disturbed
          /\ job' = ForEvents(job)
          /\ jobLog' = [jobLog EXCEPT !.event = @ + 1]
          /\ handled' = HandedOver(MarkFailed(handled, job), job')
          /\ UNCHANGED enqueueCalls
    /\ UNCHANGED <<credentials, configEdits, emitVars, mapVars, fnVars, pollVars, dbFaults,
                   aborted, crashes, sleepTicks>>

\* a loop over the events that an error of processEvent ends
JobEnqueue_AbortBatch ==
    /\ job.pc = "enqueue"
    /\ \/ /\ job' = ForEvents(job)
          /\ UNCHANGED <<jobLog, disturbances>>
          /\ handled' = HandedOver(handled, job')
       \/ /\ Disturbed
          /\ job' = ForOrgs(job)
          /\ jobLog' = [jobLog EXCEPT !.event = @ + 1]
          /\ handled' = HandedOver(MarkFailed(handled, job), job')
    /\ UNCHANGED <<credentials, configEdits, emitVars, mapVars, fnVars, pollVars, dbFaults,
                   aborted, enqueueCalls, crashes, sleepTicks>>

\* await manualReviewToolService.enqueue(...) settles; a rejection is caught
\* and logged by the loop of pollOrg
JobEnqueue ==
    /\ job.pc = "enqueue"
    /\ job' = ForEvents(job)
    /\ \/ /\ UNCHANGED <<jobLog, disturbances>>
          /\ handled' = HandedOver(handled, job')
       \/ /\ Disturbed
          /\ jobLog' = [jobLog EXCEPT !.event = @ + 1]
          /\ handled' = HandedOver(MarkFailed(handled, job), job')
    /\ UNCHANGED <<credentials, configEdits, emitVars, mapVars, fnVars, pollVars, dbFaults,
                   aborted, enqueueCalls, crashes, sleepTicks>>

\* time passes while run() awaits sleep(pollIntervalMs): the call is given the
\* interval and not the signal, so its timer runs whether or not the signal
\* is aborted
JobSleepTick ==
    /\ job.pc = "sleep"
    /\ sleepTicks < PollIntervalTicks
    /\ sleepTicks' = sleepTicks + 1
    /\ UNCHANGED <<credentials, configEdits, emitVars, mapVars, fnVars, pollVars, dbFaults,
                   job, aborted, enqueueCalls, handled, jobLog, crashes, disturbances>>

\* await sleep(pollIntervalMs) settles when its timer has elapsed, and the
\* loop condition is tested
JobSleepDone ==
    /\ job.pc = "sleep"
    /\ sleepTicks = PollIntervalTicks
    /\ aborted \/ job.cycle < MaxCycles
    /\ job' = WhileNotAborted(job)
    /\ sleepTicks' = 0
    /\ UNCHANGED <<credentials, configEdits, emitVars, mapVars, fnVars, pollVars, dbFaults,
                   aborted, enqueueCalls, handled, jobLog, crashes, disturbances>>

\* the caller of run() aborts the signal
Abort ==
    /\ ~aborted
    /\ job.pc \notin {"stopped", "disabled", "threw"}
    /\ aborted' = TRUE
    /\ UNCHANGED <<credentials, configEdits, emitVars, mapVars, fnVars, pollVars, dbFaults,
                   job, enqueueCalls, handled, jobLog, crashes, disturbances, sleepTicks>>

\* the process of the job is killed and started again: the locals of run()
\* and of the pollEvents call in flight are lost, the database is kept
CrashAndRestart ==
    /\ crashes < MaxCrashes
    /\ job.pc \notin {"start", "stopped", "disabled", "threw"}
    /\ crashes' = crashes + 1
    /\ job' = [IdleJob EXCEPT !.cycle = job.cycle]
    /\ pollCall' = [pollCall EXCEPT ![JobPoll] = IdlePoll]
    /\ aborted' = FALSE
    /\ sleepTicks' = 0
    /\ UNCHANGED <<credentials, configEdits, emitVars, mapVars, fnVars, dbFaults, event_sync_state,
                   cursorHistory, sentQueries, returnedCursors, now,
                   enqueueCalls, handled, jobLog, disturbances>>

NextJob ==
    \/ \E env \in PollEnabledEnv : JobRun(env)
    \/ JobListOrgs
    \/ JobPollStep
    \/ JobLabelerResponds
    \/ JobPollSettled
    \/ JobProcessEvent
    \/ JobGetItemTypes
    \/ JobEnqueue
    \/ JobSleepTick
    \/ JobSleepDone
    \/ Abort

SpecJob ==
    InitJob /\ [][NextJob]_vars

\* every await of run() settles: the database, the labeler and the review
\* queue answer or fail, and the timer of sleep fires
SpecJobFair ==
    SpecJob /\ WF_vars(NextJob)

NextJobRestart ==
    \/ NextJob
    \/ CrashAndRestart

SpecJobRestart ==
    InitJob /\ [][NextJobRestart]_vars

\* ------------------------------------------------------------------------
\* Label mappings: DEFAULT_MAPPINGS, getEffectiveMappings,
\* ozoneLabelToCoopPolicies, coopPolicyToOzoneLabels
\* ------------------------------------------------------------------------
\* LabelMapping: {coopPolicyType, ozoneLabelValue, direction}
LabelMapping(coopPolicyType, ozoneLabelValue, direction) ==
    [coopPolicyType |-> coopPolicyType, ozoneLabelValue |-> ozoneLabelValue,
     direction |-> direction]

Directions ==
    {"INBOUND", "OUTBOUND", "BOTH"}

DEFAULT_MAPPINGS ==
    << LabelMapping("HATE", "hate", "BOTH"),
       LabelMapping("VIOLENCE", "violence", "BOTH"),
       LabelMapping("VIOLENCE", "gore", "BOTH"),
       LabelMapping("SEXUAL_CONTENT", "sexual", "BOTH"),
       LabelMapping("SEXUAL_CONTENT", "porn", "BOTH"),
       LabelMapping("SEXUAL_CONTENT", "nudity", "BOTH"),
       LabelMapping("SPAM", "spam", "BOTH"),
       LabelMapping("HARASSMENT", "harassment", "BOTH"),
       LabelMapping("SELF_HARM_AND_SUICIDE", "self-harm", "BOTH"),
       LabelMapping("TERRORISM", "terrorism", "BOTH"),
       LabelMapping("SEXUAL_EXPLOITATION", "csam", "BOTH"),
       LabelMapping("SEXUAL_EXPLOITATION", "!hide", "OUTBOUND") >>

\* an effective list that puts the defaults after the org's own mappings
getEffectiveMappings_Merged(orgMappings) ==
    orgMappings \o DEFAULT_MAPPINGS

\* orgMappings.length > 0 ? orgMappings : DEFAULT_MAPPINGS
getEffectiveMappings(orgMappings) ==
    IF Len(orgMappings) > 0 THEN orgMappings ELSE DEFAULT_MAPPINGS

\* Set.add on the array [...set] gives: a value already present stays where it is
SetAdd(set, x) ==
    IF \E i \in DOMAIN set : set[i] = x THEN set ELSE Append(set, x)

\* m.direction === 'INBOUND' || m.direction === 'BOTH'
IsInbound(m) ==
    m.direction = "INBOUND" \/ m.direction = "BOTH"

\* m.direction === 'OUTBOUND' || m.direction === 'BOTH'
IsOutbound(m) ==
    m.direction = "OUTBOUND" \/ m.direction = "BOTH"

\* for (const mapping of inboundMappings) if (mapping.ozoneLabelValue === label) policies.add(...)
RECURSIVE ForInboundMappings(_, _, _)
ForInboundMappings(policies, inboundMappings, label) ==
    IF inboundMappings = <<>> THEN policies
    ELSE ForInboundMappings(
            IF Head(inboundMappings).ozoneLabelValue = label
            THEN SetAdd(policies, Head(inboundMappings).coopPolicyType) ELSE policies,
            Tail(inboundMappings), label)

\* for (const label of ozoneLabels) for (const mapping of inboundMappings) ...
RECURSIVE ForLabels(_, _, _)
ForLabels(policies, ozoneLabels, inboundMappings) ==
    IF ozoneLabels = <<>> THEN policies
    ELSE ForLabels(ForInboundMappings(policies, inboundMappings, Head(ozoneLabels)),
                   Tail(ozoneLabels), inboundMappings)

\* an inbound conversion that takes the mappings marked INBOUND only
ozoneLabelToCoopPolicies_InboundOnly(orgMappings, ozoneLabels) ==
    ForLabels(<<>>, ozoneLabels,
              SelectSeq(getEffectiveMappings(orgMappings), LAMBDA m : m.direction = "INBOUND"))

ozoneLabelToCoopPolicies(orgMappings, ozoneLabels) ==
    ForLabels(<<>>, ozoneLabels, SelectSeq(getEffectiveMappings(orgMappings), IsInbound))

\* for (const mapping of outboundMappings) if (mapping.coopPolicyType === coopPolicyType) labels.add(...)
RECURSIVE ForOutboundMappings(_, _, _)
ForOutboundMappings(labels, outboundMappings, coopPolicyType) ==
    IF outboundMappings = <<>> THEN labels
    ELSE ForOutboundMappings(
            IF Head(outboundMappings).coopPolicyType = coopPolicyType
            THEN SetAdd(labels, Head(outboundMappings).ozoneLabelValue) ELSE labels,
            Tail(outboundMappings), coopPolicyType)

\* an outbound conversion that does not filter on the direction
coopPolicyToOzoneLabels_AllDirections(orgMappings, coopPolicyType) ==
    ForOutboundMappings(<<>>, getEffectiveMappings(orgMappings), coopPolicyType)

coopPolicyToOzoneLabels(orgMappings, coopPolicyType) ==
    ForOutboundMappings(<<>>, SelectSeq(getEffectiveMappings(orgMappings), IsOutbound),
                        coopPolicyType)

\* policy types, label values and lists of them the functions are applied to;
\* CUSTOM_POLICY and x-spam are not in the defaults
MapPolicies ==
    {"SPAM", "SEXUAL_EXPLOITATION", "CUSTOM_POLICY"}
MapLabels ==
    {"spam", "x-spam", "!hide"}
LabelLists ==
    {<<"spam">>, <<"x-spam">>, <<"!hide">>, <<"x-spam", "!hide">>, <<"spam", "x-spam", "spam">>}
AllMappings ==
    {LabelMapping(p, l, d) : p \in MapPolicies \ {"CUSTOM_POLICY"}, l \in MapLabels,
                             d \in Directions}
MappingLists ==
    UNION {[1..n -> AllMappings] : n \in 0..MaxMappings}

\* the functions are applied to a list of mappings m: Init draws m
InitFn ==
    /\ InitJobVars
    /\ InitFnVars
    /\ credentials = InitialCredentials
    /\ configEdits = 0
    /\ emitted_events = <<>>
    /\ statusHistory = <<>>
    /\ rowCreator = <<>>
    /\ emitCall = [c \in EmitCalls |-> IdleEmit]
    /\ sentEmits = {}
    /\ dbFaults = 0
    /\ event_sync_state = InitialSyncState
    /\ cursorHistory = [o \in Orgs |-> <<None>>]
    /\ pollCall = [p \in PollCalls |-> IdlePoll]
    /\ sentQueries = {}
    /\ returnedCursors = [o \in Orgs |-> {}]
    /\ now = 0
    /\ label_mappings = <<>>
    /\ mapWrites = 0
    /\ \E m \in MappingLists : mapCall = [IdleMap EXCEPT !.mappings = m]

NotMapVars ==
    <<credentials, configEdits, emitVars, pollVars, jobVars, fnVars, dbFaults>>

\* coopPolicyToOzoneLabels(m, coopPolicyType)
FnCoopPolicyToOzoneLabels(coopPolicyType) ==
    /\ mapCall' = [IdleMap EXCEPT !.op = "coopPolicyToOzoneLabels",
                                  !.mappings = mapCall.mappings,
                                  !.policy = Some(coopPolicyType),
                                  !.result = Some(coopPolicyToOzoneLabels(mapCall.mappings,
                                                                          coopPolicyType))]
    /\ UNCHANGED <<NotMapVars, label_mappings, mapWrites>>

\* ozoneLabelToCoopPolicies(m, ozoneLabels)
FnOzoneLabelToCoopPolicies(ozoneLabels) ==
    /\ mapCall' = [IdleMap EXCEPT !.op = "ozoneLabelToCoopPolicies",
                                  !.mappings = mapCall.mappings,
                                  !.labels = ozoneLabels,
                                  !.result = Some(ozoneLabelToCoopPolicies(mapCall.mappings,
                                                                           ozoneLabels))]
    /\ UNCHANGED <<NotMapVars, label_mappings, mapWrites>>

\* ozoneLabelToCoopPolicies(m, labels) for the labels coopPolicyToOzoneLabels(m, P) gave
FnRoundTrip ==
    /\ mapCall.op = "coopPolicyToOzoneLabels"
    /\ mapCall' = [mapCall EXCEPT !.op = "roundTrip",
                                  !.labels = Val(mapCall.result),
                                  !.result = Some(ozoneLabelToCoopPolicies(mapCall.mappings,
                                                                           Val(mapCall.result)))]
    /\ UNCHANGED <<NotMapVars, label_mappings, mapWrites>>

NextFn ==
    \/ \E coopPolicyType \in MapPolicies : FnCoopPolicyToOzoneLabels(coopPolicyType)
    \/ \E ozoneLabels \in LabelLists : FnOzoneLabelToCoopPolicies(ozoneLabels)
    \/ FnRoundTrip

SpecFn ==
    InitFn /\ [][NextFn]_vars

\* ------------------------------------------------------------------------
\* Label mapping CRUD and conversions of OzoneService
\* ------------------------------------------------------------------------
\* where org_id = orgId and coop_policy_type = ... and ozone_label_value = ...
HasKey(row, orgId, coopPolicyType, ozoneLabelValue) ==
    /\ row.org_id = orgId
    /\ row.coop_policy_type = coopPolicyType
    /\ row.ozone_label_value = ozoneLabelValue

\* an insert without the ON CONFLICT clause, on a table without the constraint
setLabelMapping_InsertOnly(table, id, orgId, mapping) ==
    Append(table, [id |-> id, org_id |-> orgId,
                   coop_policy_type |-> mapping.coopPolicyType,
                   ozone_label_value |-> mapping.ozoneLabelValue,
                   direction |-> mapping.direction])

\* insertInto(label_mappings).values(...).onConflict(columns(org_id,
\* coop_policy_type, ozone_label_value).doUpdateSet({direction})); id is the
\* generated id of a new row
setLabelMapping(table, id, orgId, mapping) ==
    IF \E i \in DOMAIN table :
          HasKey(table[i], orgId, mapping.coopPolicyType, mapping.ozoneLabelValue)
    THEN [i \in DOMAIN table |->
            IF HasKey(table[i], orgId, mapping.coopPolicyType, mapping.ozoneLabelValue)
            THEN [table[i] EXCEPT !.direction = mapping.direction]
            ELSE table[i]]
    ELSE Append(table, [id |-> id, org_id |-> orgId,
                        coop_policy_type |-> mapping.coopPolicyType,
                        ozone_label_value |-> mapping.ozoneLabelValue,
                        direction |-> mapping.direction])

\* a delete that leaves the org out of its WHERE clause
deleteLabelMapping_AnyOrg(table, orgId, coopPolicyType, ozoneLabelValue) ==
    SelectSeq(table, LAMBDA row : ~(/\ row.coop_policy_type = coopPolicyType
                                    /\ row.ozone_label_value = ozoneLabelValue))

\* deleteFrom(label_mappings).where(org_id).where(coop_policy_type).where(ozone_label_value)
deleteLabelMapping(table, orgId, coopPolicyType, ozoneLabelValue) ==
    SelectSeq(table, LAMBDA row : ~HasKey(row, orgId, coopPolicyType, ozoneLabelValue))

\* selectFrom(label_mappings).where(org_id = orgId), rows mapped to LabelMapping
getLabelMappings(table, orgId) ==
    LET rows == SelectSeq(table, LAMBDA row : row.org_id = orgId) IN
    [i \in DOMAIN rows |-> LabelMapping(rows[i].coop_policy_type,
                                        rows[i].ozone_label_value, rows[i].direction)]

\* the id the database generates for the next inserted row
NextRowId ==
    Len(InitialMappings) + mapWrites + 1

\* policies and labels the operators write mappings for
WritePolicies ==
    {"SPAM"}
WriteLabels ==
    {"x-spam", "!hide"}

\* the call rejects: the statement had no effect
MapThrows(call) ==
    /\ DbFails
    /\ mapCall' = [call EXCEPT !.thrown = Some(MakeError(DbMessage))]
    /\ UNCHANGED label_mappings

\* await ozoneService.setLabelMapping(orgId, mapping)
MapSetLabelMapping(orgId, mapping) ==
    /\ mapWrites < MaxMapWrites
    /\ mapWrites' = mapWrites + 1
    /\ LET call == [IdleMap EXCEPT !.op = "setLabelMapping", !.orgId = Some(orgId),
                                   !.policy = Some(mapping.coopPolicyType),
                                   !.labels = <<mapping.ozoneLabelValue>>,
                                   !.direction = Some(mapping.direction)] IN
       \/ /\ label_mappings' = setLabelMapping(label_mappings, NextRowId, orgId, mapping)
          /\ mapCall' = call
          /\ UNCHANGED dbFaults
       \/ MapThrows(call)
    /\ UNCHANGED <<credentials, configEdits, emitVars, pollVars, jobVars, fnVars>>

\* await ozoneService.deleteLabelMapping(orgId, coopPolicyType, ozoneLabelValue)
MapDeleteLabelMapping(orgId, coopPolicyType, ozoneLabelValue) ==
    /\ mapWrites < MaxMapWrites
    /\ mapWrites' = mapWrites + 1
    /\ LET call == [IdleMap EXCEPT !.op = "deleteLabelMapping", !.orgId = Some(orgId),
                                   !.policy = Some(coopPolicyType),
                                   !.labels = <<ozoneLabelValue>>] IN
       \/ /\ label_mappings' = deleteLabelMapping(label_mappings, orgId, coopPolicyType,
                                                  ozoneLabelValue)
          /\ mapCall' = call
          /\ UNCHANGED dbFaults
       \/ MapThrows(call)
    /\ UNCHANGED <<credentials, configEdits, emitVars, pollVars, jobVars, fnVars>>

\* await ozoneService.getLabelMappings(orgId)
MapGetLabelMappings(orgId) ==
    /\ LET call == [IdleMap EXCEPT !.op = "getLabelMappings", !.orgId = Some(orgId)] IN
       \/ /\ mapCall' = [call EXCEPT !.result = Some(getLabelMappings(label_mappings, orgId))]
          /\ UNCHANGED <<label_mappings, dbFaults>>
       \/ MapThrows(call)
    /\ UNCHANGED <<credentials, configEdits, emitVars, pollVars, jobVars, fnVars, mapWrites>>

\* await ozoneService.mapPolicyToLabels(orgId, coopPolicyType)
MapPolicyToLabels(orgId, coopPolicyType) ==
    /\ LET call == [IdleMap EXCEPT !.op = "mapPolicyToLabels", !.orgId = Some(orgId),
                                   !.policy = Some(coopPolicyType)] IN
       \/ /\ LET mappings == getLabelMappings(label_mappings, orgId) IN
             mapCall' = [call EXCEPT !.mappings = mappings,
                            !.result = Some(coopPolicyToOzoneLabels(mappings, coopPolicyType))]
          /\ UNCHANGED <<label_mappings, dbFaults>>
       \/ MapThrows(call)
    /\ UNCHANGED <<credentials, configEdits, emitVars, pollVars, jobVars, fnVars, mapWrites>>

\* await ozoneService.mapLabelsToPolicies(orgId, ozoneLabels)
MapLabelsToPolicies(orgId, ozoneLabels) ==
    /\ LET call == [IdleMap EXCEPT !.op = "mapLabelsToPolicies", !.orgId = Some(orgId),
                                   !.labels = ozoneLabels] IN
       \/ /\ LET mappings == getLabelMappings(label_mappings, orgId) IN
             mapCall' = [call EXCEPT !.mappings = mappings,
                            !.result = Some(ozoneLabelToCoopPolicies(mappings, ozoneLabels))]
          /\ UNCHANGED <<label_mappings, dbFaults>>
       \/ MapThrows(call)
    /\ UNCHANGED <<credentials, configEdits, emitVars, pollVars, jobVars, fnVars, mapWrites>>

NextMap ==
    \/ \E orgId \in Orgs, p \in WritePolicies, l \in WriteLabels, d \in Directions :
          MapSetLabelMapping(orgId, LabelMapping(p, l, d))
    \/ \E orgId \in Orgs, p \in WritePolicies, l \in WriteLabels :
          MapDeleteLabelMapping(orgId, p, l)
    \/ \E orgId \in Orgs : MapGetLabelMappings(orgId)
    \/ \E orgId \in Orgs, p \in MapPolicies : MapPolicyToLabels(orgId, p)
    \/ \E orgId \in Orgs, ls \in LabelLists : MapLabelsToPolicies(orgId, ls)

SpecMap ==
    Init /\ [][NextMap]_vars

\* ------------------------------------------------------------------------
\* All operations of the bridge on two configured tenants
\* ------------------------------------------------------------------------
\* number of operations started so far: emitEvent and pollEvents calls,
\* updateSyncState calls of operators, setLabelMapping and deleteLabelMapping
TenantOps ==
    Cardinality({c \in EmitCalls : emitCall[c].pc # "idle"})
    + Cardinality({p \in PollCalls : pollCall[p].pc # "idle"})
    + configEdits + mapWrites

\* a further operation may be started
MayStart ==
    TenantOps < MaxTenantOps

NextTenant ==
    \/ \E c \in EmitCalls, orgId \in Orgs, a \in ActionIds :
          MayStart /\ EmitGetClient(c, orgId, a)
    \/ \E c \in EmitCalls : EmitGetCredential(c)
    \/ \E c \in EmitCalls : EmitInsertPending(c)
    \/ \E c \in EmitCalls : EmitCallClient(c)
    \/ \E c \in EmitCalls : EmitResponse(c)
    \/ \E c \in EmitCalls : EmitMarkSuccess(c)
    \/ \E c \in EmitCalls : EmitCatch(c)
    \/ \E orgId \in Orgs, enabled \in BOOLEAN : MayStart /\ AdminSetSyncEnabled(orgId, enabled)
    \/ \E p \in PollCalls, orgId \in Orgs : MayStart /\ PollGetClient(p, orgId)
    \/ \E p \in PollCalls : PollGetSyncState(p)
    \/ \E p \in PollCalls : PollQueryEvents(p)
    \/ \E p \in PollCalls : PollResponse(p)
    \/ \E p \in PollCalls : PollUpdateSyncState(p)
    \/ \E orgId \in Orgs, p \in WritePolicies, l \in WriteLabels, d \in Directions :
          MayStart /\ MapSetLabelMapping(orgId, LabelMapping(p, l, d))
    \/ \E orgId \in Orgs, p \in WritePolicies, l \in WriteLabels :
          MayStart /\ MapDeleteLabelMapping(orgId, p, l)

\* both tenants have a credential of their own (service URL, DID, signing
\* key) and a sync-state row; org2 has a mapping row
TenantCredentials ==
    [o \in Orgs |->
        IF o = "org1"
        THEN Some([serviceUrl |-> "https://ozone.one", did |-> "did:plc:coop1",
                   signingKey |-> GoodKey])
        ELSE Some([serviceUrl |-> "https://ozone.two", did |-> "did:plc:coop2",
                   signingKey |-> OtherKey])]

InitTenant ==
    /\ InitJobVars
    /\ InitFnVars
    /\ InitMapVars
    /\ credentials = TenantCredentials
    /\ configEdits = 0
    /\ emitted_events = <<>>
    /\ statusHistory = <<>>
    /\ rowCreator = <<>>
    /\ emitCall = [c \in EmitCalls |-> IdleEmit]
    /\ sentEmits = {}
    /\ dbFaults = 0
    /\ event_sync_state = JobSyncState
    /\ cursorHistory = [o \in Orgs |-> <<None>>]
    /\ pollCall = [p \in PollCalls |-> IdlePoll]
    /\ sentQueries = {}
    /\ returnedCursors = [o \in Orgs |-> {}]
    /\ now = 0

SpecTenant ==
    InitTenant /\ [][NextTenant]_vars

\* ------------------------------------------------------------------------
\* Outbound properties
\* ------------------------------------------------------------------------
\* rows whose insert was made by call c
RowsOf(c) ==
    {id \in DOMAIN emitted_events : rowCreator[id] = c}
Returned(c) ==
    emitCall[c].pc = "returned"
Raised(c) ==
    emitCall[c].pc = "raised"
Inserted(c) ==
    emitCall[c].eventRecord # None
RowOf(c) ==
    emitted_events[Val(emitCall[c].eventRecord)]
\* the credential check of call c found a credential
PassedCredentialCheck(c) ==
    /\ emitCall[c].pc # "idle"
    /\ emitCall[c].failedAt # Some("getClient")
    /\ emitCall[c].thrown # Some(MakeError(NotConfiguredMessage(emitCall[c].orgId)))
\* the error caught in call c was thrown by client.emitEvent
ClientEmitFailed(c) ==
    /\ emitCall[c].e # None
    /\ Val(emitCall[c].e).message \in
          {EmitFailedMessage(st) : st \in HttpStatuses} \cup {TransportMessage, MintMessage}
\* the RETRYABLE_ERROR update of call c was rejected by the database
CatchUpdateRejected(c) ==
    emitCall[c].failedAt = Some("catch")
Terminal ==
    {"SUCCESS", "RETRYABLE_ERROR"}

\* C1: every emitEvent call that has returned without raising created exactly
\* one audit row; that row was PENDING, then SUCCESS, nothing else, and is
\* SUCCESS.
C1_ReturnedHasOneSuccessRow ==
    \A c \in EmitCalls :
        Returned(c) =>
            /\ Cardinality(RowsOf(c)) = 1
            /\ \A id \in RowsOf(c) :
                  /\ statusHistory[id] = <<"PENDING", "SUCCESS">>
                  /\ emitted_events[id].status = "SUCCESS"

C1_Witness ==
    \E c \in EmitCalls : Returned(c) /\ RowOf(c).status = "SUCCESS"

C3_PendingBeforeRequest ==
    \A c \in EmitCalls :
        /\ emitCall[c].http = "inflight" => Inserted(c) /\ RowOf(c).status = "PENDING"
        /\ ~Inserted(c) =>
              /\ emitCall[c].http = "none"
              /\ \A r \in sentEmits : r.call # c
        /\ (Inserted(c) /\ RowOf(c).status \in Terminal /\ \E r \in sentEmits : r.call = c)
              => emitCall[c].http = "settled"

C3_Witness ==
    \E c, d \in EmitCalls :
        /\ emitCall[c].http = "inflight"
        /\ RowOf(c).status = "PENDING"
        /\ Raised(d)
        /\ emitCall[d].failedAt = Some("insert")

\* C4: a row that is SUCCESS or RETRYABLE_ERROR keeps that status in every
\* later state, whatever step any emitEvent call takes.
C4_TerminalIsStable ==
    [][\A id \in DOMAIN emitted_events :
          emitted_events[id].status \in Terminal =>
              emitted_events'[id].status = emitted_events[id].status]_vars

C4_Witness ==
    \E c, d \in EmitCalls :
        /\ Inserted(c)
        /\ RowOf(c).status = "SUCCESS"
        /\ Inserted(d)
        /\ RowOf(d).status = "RETRYABLE_ERROR"

C6_NotConfiguredNoSideEffect ==
    /\ [][\A c \in EmitCalls :
            (/\ emitCall[c].pc = "idle"
             /\ emitCall'[c].pc # "idle"
             /\ credentials[emitCall'[c].orgId] = None
             /\ dbFaults' = dbFaults)
            => /\ emitCall'[c].pc = "raised"
               /\ emitCall'[c].thrown = Some(MakeError(NotConfiguredMessage(emitCall'[c].orgId)))
               /\ emitted_events' = emitted_events
               /\ sentEmits' = sentEmits]_vars
    /\ [](\A c \in EmitCalls :
            (Raised(c) /\ emitCall[c].thrown = Some(MakeError(NotConfiguredMessage(emitCall[c].orgId))))
            => /\ RowsOf(c) = {}
               /\ \A r \in sentEmits : r.call # c)

C6_Witness ==
    \E c, d \in EmitCalls :
        /\ Raised(c)
        /\ emitCall[c].thrown = Some(MakeError(NotConfiguredMessage(emitCall[c].orgId)))
        /\ Returned(d)
        /\ Len(emitted_events) = 1

\* all emitEvent calls have completed or were never made
EmitQuiescent ==
    \A c \in EmitCalls : emitCall[c].pc \in {"idle", "returned", "raised"}

\* C7 (as stated), read at quiescence: every call has its own row, updates
\* touch only the caller's row, and the number of rows equals the number of
\* calls that passed the credential check.
C7_Original ==
    EmitQuiescent =>
        Len(emitted_events) = Cardinality({c \in EmitCalls : PassedCredentialCheck(c)})

\* C7 (amended): calls, also with the same coopActionId, each insert their own
\* row; a step that changes a row is a step of the call that inserted it; the
\* number of rows equals the number of calls whose PENDING insert succeeded
\* (a call that passed the credential check and then failed at the second
\* credential read or at the insert adds none).
C7_OwnRowOnly ==
    /\ [](/\ \A c, d \in EmitCalls :
               (Inserted(c) /\ Inserted(d) /\ c # d)
               => emitCall[c].eventRecord # emitCall[d].eventRecord
          /\ \A c \in EmitCalls : Inserted(c) => RowsOf(c) = {Val(emitCall[c].eventRecord)}
          /\ Len(emitted_events) = Cardinality({c \in EmitCalls : Inserted(c)})
          /\ \A c \in EmitCalls :
               (PassedCredentialCheck(c) /\ (Returned(c) \/ Raised(c)) /\ ~Inserted(c))
               => emitCall[c].failedAt \in {Some("getCredential"), Some("insert")})
    /\ [][\A id \in DOMAIN emitted_events :
            emitted_events'[id] # emitted_events[id] =>
                \E c \in EmitCalls :
                    /\ emitCall[c].eventRecord = Some(id)
                    /\ emitCall'[c].pc # emitCall[c].pc]_vars

C7_Witness ==
    \E c, d \in EmitCalls :
        /\ c # d
        /\ Returned(c)
        /\ Raised(d)
        /\ Inserted(d)
        /\ RowOf(c).coop_action_id = RowOf(d).coop_action_id
        /\ RowOf(c).org_id = RowOf(d).org_id
        /\ RowOf(c).status = "SUCCESS"
        /\ RowOf(d).status = "RETRYABLE_ERROR"

\* ------------------------------------------------------------------------
\* Inbound properties
\* ------------------------------------------------------------------------
\* pollEvents calls made for an org
PollsOf(orgId) ==
    {p \in PollCalls : pollCall[p].pc # "idle" /\ pollCall[p].orgId = orgId}
\* no two pollEvents calls of the org have overlapped
Sequential(orgId) ==
    \A p \in PollsOf(orgId) : pollCall[p].overlap = {}
PollReturned(p) ==
    pollCall[p].pc = "returned"
\* the cursor of the queryEvents response that call p returned to its caller
NewCursor(p) ==
    Val(pollCall[p].result).newCursor
\* calls of the org that returned a response with a cursor (any string)
ReturnedWithCursor(orgId) ==
    {p \in PollsOf(orgId) : PollReturned(p) /\ NewCursor(p) # None}
\* calls of the org that returned a response with a non-empty cursor
ReturnedWithNonEmptyCursor(orgId) ==
    {p \in PollsOf(orgId) : PollReturned(p) /\ Truthy(NewCursor(p))}
\* the values of the stored cursor after null, c1, c2 have been stored in turn
NullThen(c1, c2) ==
    IF c1 = c2 THEN <<None, Some(c1)>> ELSE <<None, Some(c1), Some(c2)>>

C9_CursorNeverFabricated ==
    \A o \in Orgs :
        /\ CursorOf(event_sync_state, o) # None
              => Val(CursorOf(event_sync_state, o)) \in returnedCursors[o]
        /\ \A i \in DOMAIN cursorHistory[o] :
              cursorHistory[o][i] # None => Val(cursorHistory[o][i]) \in returnedCursors[o]

C9_Witness ==
    \E o, o2 \in Orgs :
        /\ o # o2
        /\ CursorOf(event_sync_state, o) = Some("41")
        /\ "42" \in returnedCursors[o]
        /\ CursorOf(event_sync_state, o2) = None

\* the step in which call p returns to its caller
PollReturns(p) ==
    pollCall[p].pc # "returned" /\ pollCall'[p].pc = "returned"

PollRaises(p) ==
    pollCall[p].pc # "raised" /\ pollCall'[p].pc = "raised"
\* what pollEvents returns for the responses that have no cursor
NoCursorResults ==
    {[events |-> r.events, newCursor |-> None] : r \in {x \in Responses : x.cursor = None}}

LastStoredBefore(orgId, q) ==
    LET prev == {p \in ReturnedWithNonEmptyCursor(orgId) : p < q} IN
    IF prev = {} THEN None
    ELSE NewCursor(CHOOSE m \in prev : \A x \in prev : x <= m)

\* C12: every queryEvents request has limit 100 and ascending sort; its cursor
\* is the lastSyncedCursor of the row the call read (no cursor when null); so
\* with non-overlapping polls of a tenant the request of a poll carries the
\* cursor stored by the latest earlier poll, and none if there was no such poll.
C12_QueryCarriesStoredCursor ==
    /\ [](\A q \in sentQueries :
            /\ q.params.limit = 100
            /\ q.params.sortDirection = "asc"
            /\ Sequential(q.orgId) => q.params.cursor = LastStoredBefore(q.orgId, q.call))
    /\ [][\A p \in PollCalls :
            /\ (pollCall[p].pc = "getSyncState" /\ pollCall'[p].pc = "queryEvents")
               => pollCall'[p].syncState = event_sync_state[pollCall[p].orgId]
            /\ (pollCall[p].pc = "queryEvents" /\ pollCall'[p].pc = "awaitResponse")
               => \E q \in sentQueries' \ sentQueries :
                     /\ q.call = p
                     /\ q.orgId = pollCall[p].orgId
                     /\ q.params.cursor = Val(pollCall[p].syncState).last_synced_cursor]_vars

C12_Witness ==
    \E q \in sentQueries : \E p \in PollCalls :
        /\ p < q.call
        /\ Sequential(q.orgId)
        /\ p \in ReturnedWithNonEmptyCursor(q.orgId)
        /\ NewCursor(p) = Some("42")
        /\ q.params = [cursor |-> Some("42"), limit |-> 100, sortDirection |-> "asc"]

\* the errors pollEvents can raise from each of its awaits
PollErrorsAt(pc) ==
    IF pc = "queryEvents" THEN {MakeError(MintMessage)}
    ELSE IF pc = "awaitResponse"
    THEN {MakeError(TransportMessage)} \cup
         {MakeError(QueryFailedMessage(st)) : st \in {x \in HttpStatuses : ~ResponseOk(x)}}
    ELSE {MakeError(DbMessage)}

\* C13: the step in which pollEvents raises (token minting, transport error,
\* non-2xx response, rejected database statement) leaves the sync-state table
\* unchanged and hands the error of the failed operation to the caller; a
\* tenant's stored cursor changes only in a step in which a poll of that
\* tenant returns normally.
C13_FailureKeepsCursor ==
    /\ [](\A p \in PollCalls : pollCall[p].pc = "raised" <=> pollCall[p].thrown # None)
    /\ [][/\ \A p \in PollCalls :
               PollRaises(p)
               => /\ event_sync_state' = event_sync_state
                  /\ cursorHistory' = cursorHistory
                  /\ pollCall'[p].thrown # None
                  /\ Val(pollCall'[p].thrown) \in PollErrorsAt(pollCall[p].pc)
          /\ \A o \in Orgs :
               CursorOf(event_sync_state', o) # CursorOf(event_sync_state, o)
               => \E p \in PollCalls : pollCall[p].orgId = o /\ PollReturns(p)]_vars

C13_Witness ==
    \E p, q \in PollCalls :
        /\ p < q
        /\ pollCall[p].orgId = pollCall[q].orgId
        /\ PollReturned(p)
        /\ NewCursor(p) = Some("41")
        /\ pollCall[q].pc = "raised"
        /\ pollCall[q].overlap = {}
        /\ pollCall[q].thrown = Some(MakeError(DbMessage))
        /\ returnedCursors[pollCall[q].orgId] = {"41", "42"}
        /\ CursorOf(event_sync_state, pollCall[q].orgId) = Some("41")

\* C15: a queryEvents request is sent only by a call that found a credential
\* and a sync-state row with syncEnabled; a call whose credential lookup finds
\* none, or whose sync-state read finds no row or syncEnabled false, returns
\* {events: [], newCursor: undefined} in that step, raising nothing, sending
\* nothing and leaving the sync state as it is. (A lookup the database rejects
\* finds nothing out: it raises.)
C15_QueryOnlyWhenEnabled ==
    /\ [](\A q \in sentQueries : pollCall[q.call].pc # "idle" /\ pollCall[q.call].orgId = q.orgId)
    /\ [][\A p \in PollCalls :
            /\ (\E q \in sentQueries' \ sentQueries : q.call = p)
               => /\ pollCall[p].client # None
                  /\ pollCall[p].syncState # None
                  /\ Val(pollCall[p].syncState).sync_enabled
            /\ (/\ pollCall[p].pc = "idle" /\ pollCall'[p].pc # "idle"
                /\ credentials[pollCall'[p].orgId] = None
                /\ dbFaults' = dbFaults)
               => /\ pollCall'[p].pc = "returned"
                  /\ pollCall'[p].result = Some(EmptyResult)
                  /\ sentQueries' = sentQueries
                  /\ event_sync_state' = event_sync_state
            /\ (/\ pollCall[p].pc = "getSyncState" /\ pollCall'[p].pc # "getSyncState"
                /\ (IF event_sync_state[pollCall[p].orgId] = None THEN TRUE
                    ELSE ~Val(event_sync_state[pollCall[p].orgId]).sync_enabled)
                /\ dbFaults' = dbFaults)
               => /\ pollCall'[p].pc = "returned"
                  /\ pollCall'[p].result = Some(EmptyResult)
                  /\ sentQueries' = sentQueries
                  /\ event_sync_state' = event_sync_state]_vars

C15_Witness ==
    \E p, q \in PollCalls :
        /\ p # q
        /\ PollReturned(p) /\ PollReturned(q)
        /\ pollCall[p].result = Some(EmptyResult)
        /\ pollCall[q].result = Some(EmptyResult)
        /\ credentials[pollCall[p].orgId] = None
        /\ credentials[pollCall[q].orgId] # None
        /\ event_sync_state[pollCall[q].orgId] # None
        /\ ~Val(event_sync_state[pollCall[q].orgId]).sync_enabled
        /\ sentQueries = {}

\* ------------------------------------------------------------------------
\* Scheduler properties
\* ------------------------------------------------------------------------
\* ids of the events passed to processEvent for an org
HandledIds(orgId) ==
    {handled[orgId][i].id : i \in DOMAIN handled[orgId]}
\* ids of the events of an org that pollEvents has returned or is returning to
\* pollOrg and that are still waiting for their processEvent call
PendingIds(orgId) ==
    (IF job.orgId = Some(orgId) THEN {job.events[i].id : i \in DOMAIN job.events} ELSE {})
    \cup
    (IF pollCall[JobPoll].pc = "returned" /\ pollCall[JobPoll].orgId = orgId
     THEN LET evs == Val(pollCall[JobPoll].result).events IN {evs[i].id : i \in DOMAIN evs}
     ELSE {})
\* events the stored cursor of the org has moved past: no later poll asks for them
PastCursor(orgId) ==
    {id \in EventIds : /\ \E i \in DOMAIN Stream(orgId) : Stream(orgId)[i].id = id
                       /\ id <= NumberOf(CursorOf(event_sync_state, orgId))}

\* C14 (as stated): no event is missed, also across a crash and restart of the
\* scheduler: every event the stored cursor has moved past has been passed to
\* processEvent or is waiting for it in the batch pollOrg is working on.
C14_Original ==
    \A o \in Orgs : PastCursor(o) \subseteq HandledIds(o) \cup PendingIds(o)

\* REPORT, LABEL or ESCALATE with a subject DID
Eligible(event) ==
    /\ ~ClassifyThrows(event)
    /\ classifyEvent(event).category \in {Some("REPORT"), Some("LABEL"), Some("ESCALATE")}
    /\ classifyEvent(event).subjectDid # None
\* number of enqueue calls made for an event of an org
EnqueueCount(orgId, id) ==
    Cardinality({i \in DOMAIN enqueueCalls :
                    enqueueCalls[i].orgId = orgId /\ enqueueCalls[i].eventId = id})
\* number of processEvent calls made for an event of an org
HandledCount(orgId, id) ==
    Cardinality({i \in DOMAIN handled[orgId] : handled[orgId][i].id = id})
\* 1 while processEvent is still before its enqueue call for the event
BeforeEnqueue(orgId, id) ==
    IF /\ job.pc \in {"processEvent", "getItemTypes"}
       /\ job.orgId = Some(orgId)
       /\ Val(job.event).id = id
    THEN 1 ELSE 0

C17_NoEnqueueForOthers ==
    /\ \A i \in DOMAIN enqueueCalls :
          LET event == EventOf(enqueueCalls[i].orgId, enqueueCalls[i].eventId) IN
          /\ Eligible(event)
          /\ enqueueCalls[i].itemId # None
          /\ enqueueCalls[i].itemId = classifyEvent(event).subjectDid
    /\ \A o \in Orgs : \A i \in DOMAIN Stream(o) :
          ~Eligible(Stream(o)[i]) => EnqueueCount(o, Stream(o)[i].id) = 0

C17_Witness ==
    /\ job.pc = "sleep"
    /\ {41, 43} \subseteq HandledIds("org1")
    /\ {52, 53, 54} \subseteq HandledIds("org2")
    /\ Len(enqueueCalls) >= 1
    /\ \A i \in DOMAIN enqueueCalls : enqueueCalls[i].eventId \in {42, 44, 51}

\* C18: a cycle that obtained its list of tenants and did not observe
\* cancellation has called pollEvents for every tenant of the list, in order,
\* whatever polls failed; a failing pollEvents call leaves the sync state as
\* it is, its error is logged by pollOrg and the loop goes on to the next tenant.
C18_CycleSurvivesPollFailure ==
    /\ [](/\ (job.pc = "sleep" /\ job.listed # None /\ ~job.broke)
             => job.polled = Val(job.listed)
          /\ job.broke => aborted)
    /\ [][/\ PollRaises(JobPoll) => event_sync_state' = event_sync_state
          /\ (job.pc = "pollEvents" /\ pollCall[JobPoll].pc = "raised" /\ job' # job)
             => /\ job' = ForOrgs(job)
                /\ jobLog'.poll = jobLog.poll + 1
                /\ event_sync_state' = event_sync_state]_vars

C18_Witness ==
    /\ job.pc = "sleep"
    /\ job.cycle = 1
    /\ ~aborted
    /\ jobLog.poll = 1
    /\ job.listed # None
    /\ Len(Val(job.listed)) = 2
    /\ job.polled = Val(job.listed)
    /\ CursorOf(event_sync_state, Val(job.listed)[1]) = None
    /\ CursorOf(event_sync_state, Val(job.listed)[2]) # None

\* the step in which an error of processEvent is caught and logged
EventFails ==
    jobLog'.event = jobLog.event + 1

\* C19 (as stated): after an error of processEvent the loop goes on with the
\* next event of the batch and the sync state is left as it is; an event whose
\* processing failed is never passed to processEvent again.
C19_Original ==
    /\ [](\A o \in Orgs : \A i, k \in DOMAIN handled[o] :
            (i < k /\ handled[o][i].id = handled[o][k].id) => ~handled[o][i].failed)
    /\ [][EventFails => (job' = ForEvents(job) /\ event_sync_state' = event_sync_state)]_vars

\* C19 (amended): the same, for an event whose batch advanced the stored
\* cursor; an event that arrived in a response without a cursor is polled
\* and processed again in the next cycle, whether or not it failed.
C19_FailedEventIsSkipped ==
    /\ [](\A o \in Orgs : \A i, k \in DOMAIN handled[o] :
            (i < k /\ handled[o][i].id = handled[o][k].id)
            => ~(handled[o][i].failed /\ handled[o][i].advanced))
    /\ [][EventFails => (job' = ForEvents(job) /\ event_sync_state' = event_sync_state)]_vars

C19_Witness ==
    /\ job.cycle = 2
    /\ Len(handled["org1"]) = 3
    /\ handled["org1"][1] = [id |-> 41, advanced |-> TRUE, failed |-> TRUE]
    /\ handled["org1"][2] = [id |-> 42, advanced |-> TRUE, failed |-> TRUE]
    /\ handled["org1"][3].id = 43
    /\ EnqueueCount("org1", 42) = 1
    /\ CursorOf(event_sync_state, "org1") = Some("44")

\* C20: run() of an enabled job never throws and is left only after the signal
\* was aborted; every error the job logs is followed by the next tenant, the
\* next event or the sleep; the sleep is followed by the next cycle unless the
\* signal was aborted.
C20_StopsOnlyOnAbort ==
    /\ [](job.pc # "threw" /\ (job.pc = "stopped" => aborted))
    /\ [][/\ jobLog' # jobLog => job'.pc \in {"sleep", "pollEvents", "processEvent"}
          /\ (job.pc = "sleep" /\ job' # job)
             => IF aborted THEN job'.pc = "stopped"
                ELSE job'.pc = "listOrgs" /\ job'.cycle = job.cycle + 1]_vars

C20_Witness ==
    /\ job.pc = "stopped"
    /\ job.cycle = 2
    /\ jobLog.loop >= 1
    /\ jobLog.poll >= 1
    /\ jobLog.event >= 1

\* the event loop of pollOrg is at an event: processEvent is running
InEventLoop ==
    job.pc \in {"processEvent", "getItemTypes", "enqueue"}

\* the step in which processEvent returns or throws for the current event
ProcessEventEnds ==
    /\ InEventLoop
    /\ job' # job
    /\ job'.pc \notin {"getItemTypes", "enqueue"}

\* C21: once the signal is aborted no tenant poll and no cycle is started;
\* the batch of the tenant in flight is still processed to its last event,
\* also the batch of a pollEvents call that was in flight; the sleep is then
\* followed by the return of run(), which is reached (a disabled job has
\* returned at once).
C21_AbortDrainsTenant ==
    /\ [][/\ aborted => /\ job'.pc = "pollEvents" => job.pc = "pollEvents"
                        /\ job'.pc = "listOrgs" => job.pc = "listOrgs"
                        /\ job'.polled = job.polled
                        /\ job'.cycle = job.cycle
          /\ (ProcessEventEnds /\ job.events # <<>>)
                => /\ job'.pc = "processEvent"
                   /\ job'.event = Some(Head(job.events))
                   /\ job'.events = Tail(job.events)
          /\ (/\ job.pc = "pollEvents" /\ job' # job
              /\ pollCall[JobPoll].pc = "returned"
              /\ Val(pollCall[JobPoll].result).events # <<>>)
                => /\ job'.pc = "processEvent"
                   /\ <<Val(job'.event)>> \o job'.events = Val(pollCall[JobPoll].result).events
          /\ (aborted /\ job.pc = "sleep" /\ job'.pc # "sleep") => job'.pc = "stopped"]_vars
    /\ (aborted ~> job.pc \in {"stopped", "disabled"})

C21_Witness ==
    /\ job.pc = "stopped"
    /\ aborted
    /\ job.cycle = 1
    /\ job.listed = Some(<<"org1", "org2">>)
    /\ job.polled = <<"org1">>
    /\ job.broke
    /\ Len(handled["org1"]) = 2
    /\ handled["org2"] = <<>>

\* C22 (as stated): the wait between two cycles ends when the signal is
\* aborted: with the signal aborted, the next step of a sleeping run() is its
\* return, no further tick of the timer is awaited.
C22_Original ==
    [][(job.pc = "sleep" /\ aborted) => job'.pc = "stopped"]_vars

\* the ids of the events passed to processEvent for an org, in order
HandledSeq(h) ==
    [i \in DOMAIN h |-> h[i].id]

\* C23: one pollEvents call or one processEvent call is in flight at a time;
\* processEvent is called for the events of a batch in the order of the
\* response, each call after the one before has returned or thrown; the next
\* tenant, in the order of the list, is polled after the batch is finished.
C23_Sequential ==
    /\ [](/\ pollCall[JobPoll].pc # "idle"
              => job.pc = "pollEvents" /\ job.event = None /\ job.events = <<>>
          /\ InEventLoop
              => /\ job.event # None /\ job.orgId # None
                 /\ handled[Val(job.orgId)] # <<>>
                 /\ handled[Val(job.orgId)][Len(handled[Val(job.orgId)])].id = Val(job.event).id)
    /\ [][/\ \A o \in Orgs :
               HandledSeq(handled'[o]) # HandledSeq(handled[o])
               => /\ job.orgId = Some(o) /\ job'.orgId = Some(o)
                  /\ IF InEventLoop
                     THEN /\ ProcessEventEnds
                          /\ job.events # <<>>
                          /\ HandledSeq(handled'[o])
                                = Append(HandledSeq(handled[o]), Head(job.events).id)
                     ELSE /\ job.pc = "pollEvents"
                          /\ pollCall[JobPoll].pc = "returned"
                          /\ HandledSeq(handled'[o])
                                = Append(HandledSeq(handled[o]),
                                         Head(Val(pollCall[JobPoll].result).events).id)
          /\ (job'.polled # job.polled /\ job'.polled # <<>>)
               => /\ job.events = <<>>
                  /\ InEventLoop => ProcessEventEnds
                  /\ pollCall[JobPoll].pc \in {"idle", "returned", "raised"}
                  /\ job'.listed # None
                  /\ Len(job'.polled) = Len(job.polled) + 1
                  /\ job'.polled = SubSeq(Val(job'.listed), 1, Len(job'.polled))
                  /\ job'.orgId = Some(job'.polled[Len(job'.polled)])
                  /\ job'.pc = "pollEvents"]_vars

C23_Witness ==
    /\ job.cycle = 1
    /\ job.pc = "sleep"
    /\ job.polled = <<"org2", "org1">>
    /\ HandledSeq(handled["org1"]) = <<41, 42>>
    /\ HandledSeq(handled["org2"]) = <<51, 52>>
    /\ handled["org1"][1].failed
    /\ Len(enqueueCalls) = 2
    /\ enqueueCalls[1].eventId = 51
    /\ enqueueCalls[2].eventId = 42

\* C24: a job whose OZONE_POLL_ENABLED is unset or anything but 'true' returns
\* from run() at once: it has listed no tenants, polled nothing, sent no
\* request, enqueued nothing, logged no error and not slept, and nothing of
\* that happens afterwards; only a job with 'true' enters the loop.
C24_DisabledDoesNothing ==
    /\ job.pc = "disabled"
         => /\ job.env # Some("true")
            /\ job.cycle = 0 /\ job.listed = None /\ job.polled = <<>>
            /\ pollCall[JobPoll] = IdlePoll
            /\ sentQueries = {}
            /\ enqueueCalls = <<>>
            /\ \A o \in Orgs : handled[o] = <<>>
            /\ jobLog = NoLog
            /\ sleepTicks = 0
            /\ event_sync_state = JobSyncState
    /\ job.pc \notin {"start", "disabled"} => job.env = Some("true")
    /\ job.env \notin {None, Some("true")} => job.pc = "disabled"

C24_Witness ==
    /\ job.pc = "disabled"
    /\ job.env = None
    /\ aborted

\* ------------------------------------------------------------------------
\* Label-mapping properties
\* ------------------------------------------------------------------------
\* the values of a list
Range(seq) ==
    {seq[i] : i \in DOMAIN seq}

\* C27: when the list m has a BOTH mapping for policy P, P is among the
\* policies ozoneLabelToCoopPolicies gives for the labels
\* coopPolicyToOzoneLabels gives for P.
C27_RoundTrip ==
    mapCall.op = "roundTrip"
    => \A i \in DOMAIN mapCall.mappings :
          (/\ mapCall.mappings[i].direction = "BOTH"
           /\ mapCall.mappings[i].coopPolicyType = Val(mapCall.policy))
          => Val(mapCall.policy) \in Range(Val(mapCall.result))

C27_Witness ==
    /\ mapCall.op = "roundTrip"
    /\ mapCall.mappings = << LabelMapping("SPAM", "x-spam", "BOTH"),
                             LabelMapping("SEXUAL_EXPLOITATION", "x-spam", "INBOUND") >>
    /\ mapCall.policy = Some("SPAM")
    /\ mapCall.labels = <<"x-spam">>
    /\ mapCall.result = Some(<<"SPAM", "SEXUAL_EXPLOITATION">>)

\* the mappings in force for m that pair policy P with label L all have direction d
StrictlyOnly(m, P, L, d) ==
    LET pairs == {i \in DOMAIN m : m[i].coopPolicyType = P /\ m[i].ozoneLabelValue = L} IN
    /\ pairs # {}
    /\ \A i \in pairs : m[i].direction = d

\* C28: a pair (P, L) that is mapped INBOUND only does not put L among the
\* labels of P; a pair that is mapped OUTBOUND only does not put P among the
\* policies of the label list [L]; with the defaults '!hide' has no policy.
C28_DirectionStrict ==
    LET m == getEffectiveMappings(mapCall.mappings) IN
    /\ mapCall.op = "coopPolicyToOzoneLabels"
         => \A L \in MapLabels :
               StrictlyOnly(m, Val(mapCall.policy), L, "INBOUND")
               => L \notin Range(Val(mapCall.result))
    /\ (mapCall.op = "ozoneLabelToCoopPolicies" /\ Len(mapCall.labels) = 1)
         => \A P \in MapPolicies :
               StrictlyOnly(m, P, mapCall.labels[1], "OUTBOUND")
               => P \notin Range(Val(mapCall.result))
    /\ (/\ mapCall.op = "ozoneLabelToCoopPolicies"
        /\ mapCall.mappings = <<>>
        /\ mapCall.labels = <<"!hide">>)
         => mapCall.result = Some(<<>>)

C28_Witness ==
    /\ mapCall.op = "coopPolicyToOzoneLabels"
    /\ mapCall.mappings = << LabelMapping("SPAM", "x-spam", "INBOUND"),
                             LabelMapping("SPAM", "spam", "OUTBOUND") >>
    /\ mapCall.policy = Some("SPAM")
    /\ mapCall.result = Some(<<"spam">>)

\* the rows of an org
MappingRows(table, orgId) ==
    {table[i] : i \in {k \in DOMAIN table : table[k].org_id = orgId}}

\* the mappings a conversion for an org has to be computed from: the org's
\* rows, or the defaults when it has none
InForce(orgId) ==
    IF MappingRows(label_mappings, orgId) # {}
    THEN {LabelMapping(r.coop_policy_type, r.ozone_label_value, r.direction) :
             r \in MappingRows(label_mappings, orgId)}
    ELSE Range(DEFAULT_MAPPINGS)

NoRepeats(seq) ==
    \A i, k \in DOMAIN seq : i # k => seq[i] # seq[k]

\* C26: mapPolicyToLabels and mapLabelsToPolicies give exactly what the
\* org's own rows give when it has rows, and exactly what the 12 defaults give
\* when it has none, whatever setLabelMapping and deleteLabelMapping calls
\* came before.
C26_NoMerge ==
    /\ Len(DEFAULT_MAPPINGS) = 12
    /\ (mapCall.op = "mapPolicyToLabels" /\ mapCall.thrown = None)
         => /\ NoRepeats(Val(mapCall.result))
            /\ Range(Val(mapCall.result))
                 = {m.ozoneLabelValue :
                      m \in {x \in InForce(Val(mapCall.orgId)) :
                               /\ x.coopPolicyType = Val(mapCall.policy)
                               /\ x.direction \in {"OUTBOUND", "BOTH"}}}
    /\ (mapCall.op = "mapLabelsToPolicies" /\ mapCall.thrown = None)
         => /\ NoRepeats(Val(mapCall.result))
            /\ Range(Val(mapCall.result))
                 = {m.coopPolicyType :
                      m \in {x \in InForce(Val(mapCall.orgId)) :
                               /\ x.ozoneLabelValue \in Range(mapCall.labels)
                               /\ x.direction \in {"INBOUND", "BOTH"}}}

C26_Witness ==
    /\ mapCall.op = "mapPolicyToLabels"
    /\ mapCall.orgId = Some("org2")
    /\ mapCall.policy = Some("SPAM")
    /\ mapCall.result = Some(<<"spam">>)
    /\ mapWrites = 1
    /\ label_mappings = <<>>

\* C29 (as stated): getLabelMappings returns the default mappings for an org
\* that has no rows.
C29_Original ==
    (/\ mapCall.op = "getLabelMappings"
     /\ mapCall.thrown = None
     /\ MappingRows(label_mappings, Val(mapCall.orgId)) = {})
    => mapCall.result = Some(DEFAULT_MAPPINGS)

\* C30: no two rows have the same (org_id, coop_policy_type,
\* ozone_label_value) and no two the same id; a setLabelMapping for a key
\* that has a row changes the direction of that row and nothing else, for a
\* new key it adds one row; a deleteLabelMapping removes the row with the key
\* and nothing else, and nothing when there is none; a rejected call changes
\* nothing.
C30_UniqueKey ==
    /\ [](\A i, k \in DOMAIN label_mappings :
            (\/ label_mappings[i].id = label_mappings[k].id
             \/ HasKey(label_mappings[i], label_mappings[k].org_id,
                       label_mappings[k].coop_policy_type,
                       label_mappings[k].ozone_label_value))
            => i = k)
    /\ [][mapWrites' # mapWrites =>
            LET o == Val(mapCall'.orgId)
                p == Val(mapCall'.policy)
                l == mapCall'.labels[1]
                hit == {i \in DOMAIN label_mappings : HasKey(label_mappings[i], o, p, l)} IN
            IF mapCall'.thrown # None THEN label_mappings' = label_mappings
            ELSE IF mapCall'.op = "setLabelMapping"
            THEN IF hit # {}
                 THEN /\ Len(label_mappings') = Len(label_mappings)
                      /\ \A i \in DOMAIN label_mappings :
                            IF i \in hit
                            THEN label_mappings'[i] =
                                   [label_mappings[i] EXCEPT !.direction = Val(mapCall'.direction)]
                            ELSE label_mappings'[i] = label_mappings[i]
                 ELSE /\ Len(label_mappings') = Len(label_mappings) + 1
                      /\ SubSeq(label_mappings', 1, Len(label_mappings)) = label_mappings
                      /\ LET row == label_mappings'[Len(label_mappings')] IN
                         /\ HasKey(row, o, p, l)
                         /\ row.direction = Val(mapCall'.direction)
            ELSE /\ mapCall'.op = "deleteLabelMapping"
                 /\ Len(label_mappings') = Len(label_mappings) - Cardinality(hit)
                 /\ Cardinality(hit) <= 1
                 /\ Range(label_mappings') = Range(label_mappings) \ {label_mappings[i] : i \in hit}]_vars

C30_Witness ==
    /\ mapWrites = 2
    /\ mapCall.op = "deleteLabelMapping"
    /\ mapCall.thrown = None
    /\ mapCall.orgId = Some("org2")
    /\ mapCall.policy = Some("SPAM")
    /\ mapCall.labels = <<"!hide">>
    /\ label_mappings = << [id |-> 1, org_id |-> "org2", coop_policy_type |-> "SPAM",
                            ozone_label_value |-> "x-spam", direction |-> "INBOUND"] >>

\* ------------------------------------------------------------------------
\* Tenant scoping
\* ------------------------------------------------------------------------
\* the audit rows of an org, with their ids
AuditRows(rows, orgId) ==
    {[id |-> i, row |-> rows[i]] : i \in {k \in DOMAIN rows : rows[k].org_id = orgId}}

\* the step changes a row of the org in one of the three tables
RowsChange(orgId) ==
    \/ AuditRows(emitted_events', orgId) # AuditRows(emitted_events, orgId)
    \/ event_sync_state'[orgId] # event_sync_state[orgId]
    \/ MappingRows(label_mappings', orgId) # MappingRows(label_mappings, orgId)

\* the step is a step of a call made for the org; an operator's
\* updateSyncState call is known by the edit it counts
StepFor(orgId) ==
    \/ \E c \in EmitCalls : emitCall'[c] # emitCall[c] /\ emitCall'[c].orgId = orgId
    \/ \E p \in PollCalls : pollCall'[p] # pollCall[p] /\ pollCall'[p].orgId = orgId
    \/ mapWrites' # mapWrites /\ mapCall'.orgId = Some(orgId)
    \/ configEdits' # configEdits

\* C25: a step that changes an audit row, the sync-state row or a mapping row
\* of a tenant is a step of an operation called for that tenant, and changes
\* no row of the other tenant; a client is built from the credential of the
\* tenant of its call, and every request goes to that tenant's serviceUrl with
\* a token issued for that tenant's DID and minted with its key.
C25_TenantScoped ==
    /\ [][\A B \in Orgs :
            RowsChange(B) => /\ StepFor(B)
                             /\ \A A \in Orgs \ {B} : ~RowsChange(A)]_vars
    /\ [](/\ \A c \in EmitCalls :
               emitCall[c].client # None
               => Val(emitCall[c].client) = OzoneApiClient(Val(credentials[emitCall[c].orgId]))
          /\ \A p \in PollCalls :
               pollCall[p].client # None
               => Val(pollCall[p].client) = OzoneApiClient(Val(credentials[pollCall[p].orgId]))
          /\ \A r \in sentEmits \cup sentQueries :
               LET credential == Val(credentials[r.orgId]) IN
               /\ r.serviceUrl = credential.serviceUrl
               /\ r.token.iss = credential.did
               /\ r.token.aud = <<"did:web:", UrlHostname(credential.serviceUrl)>>
               /\ KeyImports(credential.signingKey)
          /\ \A r \in sentEmits : emitCall[r.call].orgId = r.orgId
          /\ \A r \in sentQueries : pollCall[r.call].orgId = r.orgId)

C25_Witness ==
    /\ \E c, d \in EmitCalls :
          /\ emitCall[c].orgId = "org1" /\ emitCall[d].orgId = "org2"
          /\ Returned(c)
          /\ emitCall[d].pc = "awaitResponse"
          /\ \E r \in sentEmits : r.call = d /\ r.serviceUrl = Val(credentials["org2"]).serviceUrl
    /\ Len(emitted_events) = 2
    /\ emitted_events[1].status = "SUCCESS"
    /\ emitted_events[2].status = "PENDING"
    /\ MappingRows(label_mappings, "org2") # {}

\* ------------------------------------------------------------------------
\* Helper functions applied to inputs: the state around a call of a helper
\* ------------------------------------------------------------------------
\* the bridge has done nothing and the helper is about to be applied to call
InitHelper(call) ==
    /\ InitJobVars
    /\ InitMapVars
    /\ credentials = InitialCredentials
    /\ configEdits = 0
    /\ emitted_events = <<>>
    /\ statusHistory = <<>>
    /\ rowCreator = <<>>
    /\ emitCall = [c \in EmitCalls |-> IdleEmit]
    /\ sentEmits = {}
    /\ dbFaults = 0
    /\ event_sync_state = InitialSyncState
    /\ cursorHistory = [o \in Orgs |-> <<None>>]
    /\ pollCall = [p \in PollCalls |-> IdlePoll]
    /\ sentQueries = {}
    /\ returnedCursors = [o \in Orgs |-> {}]
    /\ now = 0
    /\ fnCall = call

NotFnVars ==
    <<credentials, configEdits, emitVars, pollVars, jobVars, mapVars, dbFaults>>

\* ------------------------------------------------------------------------
\* ozoneEventTypeToCoopCategory applied to event types
\* ------------------------------------------------------------------------
\* fragments an event $type has at most
MaxTypeLen ==
    3
\* the fragments of a $type: the lexicon, the separator, the five names the
\* function looks for and a name it does not look for
TypeFragments ==
    {"tools.ozone.moderation.defs", "#", "modEventReport", "modEventTakedown",
     "modEventLabel", "modEventComment", "modEventEscalate", "modEventAcknowledge"}
EventTypes ==
    UNION {[1..n -> TypeFragments] : n \in 0..MaxTypeLen}

InitCategory ==
    \E type \in EventTypes : InitHelper([op |-> "none", type |-> type, result |-> None])

\* ozoneEventTypeToCoopCategory(event.event.$type)
CategoryOf ==
    /\ fnCall.op = "none"
    /\ fnCall' = [fnCall EXCEPT !.op = "ozoneEventTypeToCoopCategory",
                                !.result = ozoneEventTypeToCoopCategory(fnCall.type)]
    /\ UNCHANGED NotFnVars

NextCategory ==
    CategoryOf

SpecCategory ==
    InitCategory /\ [][NextCategory]_vars

\* ------------------------------------------------------------------------
\* Claims about ozoneEventTypeToCoopCategory
\* ------------------------------------------------------------------------
\* the five names in the order of priority, and the category of each
PriorityNames ==
    <<"modEventReport", "modEventTakedown", "modEventLabel", "modEventComment",
      "modEventEscalate">>
PriorityCategories ==
    <<"REPORT", "TAKEDOWN", "LABEL", "COMMENT", "ESCALATE">>
\* the positions in PriorityNames of the names that occur in the $type
Occurring(type) ==
    {i \in DOMAIN PriorityNames : \E k \in DOMAIN type : type[k] = PriorityNames[i]}
FirstOf(positions) ==
    CHOOSE i \in positions : \A j \in positions : i <= j

\* C31: the category depends only on which of the five names occur in the
\* $type: it is the category of the occurring name that comes first in the
\* priority order REPORT, TAKEDOWN, LABEL, COMMENT, ESCALATE, wherever the
\* names stand in the $type, and it is null exactly when none of them occurs.
C31_FirstOccurringName ==
    fnCall.op = "ozoneEventTypeToCoopCategory" =>
        LET occurring == Occurring(fnCall.type) IN
        /\ (fnCall.result = None) <=> (occurring = {})
        /\ occurring # {} => fnCall.result = Some(PriorityCategories[FirstOf(occurring)])

\* the $type names an escalation before a label and a takedown: TAKEDOWN
C31_Witness ==
    /\ fnCall.op = "ozoneEventTypeToCoopCategory"
    /\ fnCall.type = <<"modEventEscalate", "modEventLabel", "modEventTakedown">>
    /\ fnCall.result = Some("TAKEDOWN")

\* ------------------------------------------------------------------------
\* OzoneApiClient: a request of the client, from the URL to fetchHTTP
\* ------------------------------------------------------------------------
TokenKeys ==
    {GoodKey, BadKey, PrefixedKey, UpperKey, OddKey, ShortKey, LongKey,
     TrailingNonHexKey, LeadingNonHexKey, NonHexKey}
TokenUrls ==
    {"https://ozone.one", "https://Ozone.Example.com:3000/xrpc", "http://localhost:2583",
     "ozone.one"}
TokenDids ==
    {"did:plc:coop1", "did:plc:coop2"}
\* values of Date.now(), in milliseconds
ClockValues ==
    {0, 999, 1000, 61999}
\* new OzoneApiClient(fetchHTTP, config) for the configs a credential can give
ClientConfigs ==
    {OzoneApiClient([serviceUrl |-> u, did |-> d, signingKey |-> k]) :
        u \in TokenUrls, d \in TokenDids, k \in TokenKeys}

InitToken ==
    \E config \in ClientConfigs, dateNow \in ClockValues :
        InitHelper([op |-> "none", pc |-> "start", config |-> config, dateNow |-> dateNow,
                    token |-> None, sent |-> None, thrown |-> None])

\* new URL(path, this.config.serviceUrl), then createServiceAuthToken up to
\* await jose.importPKCS8: hexToUint8Array and rawSecp256k1ToPKCS8Pem
ClientBuildRequest ==
    /\ fnCall.pc = "start"
    /\ fnCall' =
          IF UrlThrows(fnCall.config.serviceUrl)
          THEN [fnCall EXCEPT !.op = "queryEvents", !.pc = "failed",
                              !.thrown = Some(MakeError(InvalidUrlMessage))]
          ELSE IF HexThrows(KeyChars(fnCall.config.signingKey))
          THEN [fnCall EXCEPT !.op = "queryEvents", !.pc = "failed",
                              !.thrown = Some(MakeError(RangeErrorMessage))]
          ELSE [fnCall EXCEPT !.op = "queryEvents", !.pc = "importPKCS8"]
    /\ UNCHANGED NotFnVars

\* jose.importPKCS8 settles; with a key, Date.now() is read and the claims
\* are handed to SignJWT
ClientImportKey ==
    /\ fnCall.pc = "importPKCS8"
    /\ \E imported \in ImportOutcomes(fnCall.config.signingKey) :
          fnCall' =
             IF imported
             THEN [fnCall EXCEPT !.pc = "sign",
                                 !.token = Some(createServiceAuthToken(fnCall.config,
                                                                       fnCall.dateNow))]
             ELSE [fnCall EXCEPT !.pc = "failed", !.thrown = Some(MakeError(MintMessage))]
    /\ UNCHANGED NotFnVars

\* sign settles and fetchHTTP is called with Authorization: Bearer token
ClientFetch ==
    /\ fnCall.pc = "sign"
    /\ fnCall' = [fnCall EXCEPT !.pc = "fetchHTTP",
                                !.sent = Some([serviceUrl |-> fnCall.config.serviceUrl,
                                               token |-> Val(fnCall.token)])]
    /\ UNCHANGED NotFnVars

NextToken ==
    \/ ClientBuildRequest
    \/ ClientImportKey
    \/ ClientFetch

SpecToken ==
    InitToken /\ [][NextToken]_vars

\* ------------------------------------------------------------------------
\* Claims about service tokens
\* ------------------------------------------------------------------------
\* C32: every token minted for a request has iss equal to the credential's
\* did, aud equal to did:web: followed by the hostname of the serviceUrl
\* (lower case, no scheme, port or path), iat equal to the whole seconds of
\* the one clock value read at minting and exp = iat + 60, so that it is
\* valid for no more than 60 seconds; the request carries that token.
C32_TokenClaims ==
    fnCall.op = "queryEvents" /\ fnCall.token # None =>
        LET token == Val(fnCall.token) IN
        /\ token.iss = fnCall.config.did
        /\ token.aud = <<"did:web:", UrlHostname(fnCall.config.serviceUrl)>>
        /\ token.aud[2] \in {"ozone.one", "ozone.example.com", "localhost"}
        /\ 1000 * token.iat <= fnCall.dateNow
        /\ fnCall.dateNow < 1000 * (token.iat + 1)
        /\ token.exp = token.iat + 60
        /\ fnCall.sent # None => Val(fnCall.sent).token = token

\* a request with a token minted at 61.999 s for a serviceUrl with upper-case
\* letters, a port and a path
C32_Witness ==
    /\ fnCall.op = "queryEvents"
    /\ fnCall.sent # None
    /\ fnCall.config.serviceUrl = "https://Ozone.Example.com:3000/xrpc"
    /\ fnCall.dateNow = 61999
    /\ Val(fnCall.sent).token.iat = 61
    /\ Val(fnCall.sent).token.exp = 121
    /\ Val(fnCall.sent).token.aud = <<"did:web:", "ozone.example.com">>

\* the key, after stripping 0x, is not exactly 64 hexadecimal characters
Malformed(signingKey) ==
    LET cleanHex == CleanHex(KeyChars(signingKey)) IN
    \/ Len(cleanHex) # 64
    \/ \E i \in DOMAIN cleanHex : HexDigit(cleanHex[i]) = -1

\* C33 as stated: whenever the signing key, after stripping an optional 0x,
\* is not exactly 64 hexadecimal characters, minting fails: no token is
\* produced and no request is sent.
C33_Original ==
    fnCall.op = "queryEvents" /\ Malformed(fnCall.config.signingKey) =>
        /\ fnCall.token = None
        /\ fnCall.sent = None

\* ------------------------------------------------------------------------
\* Claims about the sync state after a poll
\* ------------------------------------------------------------------------
\* the step in which call p returns after a 2xx queryEvents response
PollSucceeds(p) ==
    PollReturns(p) /\ pollCall[p].pc \in {"awaitResponse", "updateSyncState"}
\* the time of the poll that returns in this step: the time read for the
\* update if there was one, the time of the step otherwise
PollTime(p) ==
    IF pollCall[p].pc = "updateSyncState" THEN pollCall[p].at ELSE now

\* C34 as stated: whenever pollEvents obtains a 2xx queryEvents response, an
\* empty page included, and returns, the tenant's last_synced_at is the time
\* of that poll, and last_synced_cursor is the cursor of the response when it
\* has one.
C34_Original ==
    [][\A p \in PollCalls :
          PollSucceeds(p) =>
             LET row == event_sync_state'[pollCall[p].orgId]
                 result == Val(pollCall'[p].result) IN
             /\ row # None
             /\ Val(row).last_synced_at = Some(PollTime(p))
             /\ result.newCursor # None
                   => Val(row).last_synced_cursor = result.newCursor]_vars

\* ------------------------------------------------------------------------
\* OzoneService.updateSyncState called with any partial state, next to a poll
\* ------------------------------------------------------------------------
\* Partial<Omit<OzoneSyncState, 'orgId'>>: each field left out (None) or
\* provided, the nullable ones possibly as null
PartialStates(at) ==
    [lastSyncedCursor : {None, Some(None), Some(Some("40"))},
     lastSyncedAt : {None, Some(None), Some(Some(at))},
     syncEnabled : {None, Some(TRUE), Some(FALSE)}]

\* await ozoneService.updateSyncState(orgId, state)
SyncUpsert(orgId, state) ==
    /\ configEdits < MaxConfigEdits
    /\ configEdits' = configEdits + 1
    /\ event_sync_state' = updateSyncState(event_sync_state, orgId, state, now, now)
    /\ cursorHistory' = Observed(event_sync_state')
    /\ now' = now + 1
    /\ fnCall' = [op |-> "updateSyncState", orgId |-> orgId, state |-> state]
    /\ UNCHANGED <<credentials, emitVars, jobVars, mapVars, dbFaults, pollCall, sentQueries,
                   returnedCursors>>

\* one pollEvents call, and updateSyncState calls before, during and after it
NextSync ==
    \/ \E orgId \in Orgs : \E state \in PartialStates(now) : SyncUpsert(orgId, state)
    \/ \E orgId \in Orgs : PollGetClient(1, orgId)
    \/ PollGetSyncState(1)
    \/ PollQueryEvents(1)
    \/ PollResponse(1)
    \/ PollUpdateSyncState(1)

SpecSync ==
    Init /\ [][NextSync]_vars

\* ------------------------------------------------------------------------
\* Claims about updateSyncState
\* ------------------------------------------------------------------------
\* the partial state of the updateSyncState call made in this step for the
\* org, as a set of at most one element
UpsertOf(orgId) ==
    (IF /\ configEdits' # configEdits
        /\ fnCall'.op = "updateSyncState"
        /\ fnCall'.orgId = orgId
     THEN {fnCall'.state} ELSE {})
    \cup
    (IF /\ pollCall[1].pc = "updateSyncState"
        /\ pollCall[1].orgId = orgId
        /\ pollCall'[1].pc = "returned"
     THEN {CursorUpdate(Val(pollCall[1].response), pollCall[1].at)} ELSE {})

\* the value a column has after the upsert: the provided value, else the old
\* value of the row, else the default of the insert
ColumnAfter(provided, old, default) ==
    IF provided # None THEN Val(provided)
    ELSE IF old # None THEN Val(old)
    ELSE default

\* C35: updateSyncState is an upsert.  Without a row it inserts one, the
\* fields left out being cursor null, syncedAt null, syncEnabled true; with a
\* row it changes the fields the partial state provides and leaves the others
\* of cursor, syncedAt and syncEnabled unchanged; a step that is not an
\* updateSyncState call leaves the row as it is.  So the cursor update of
\* pollEvents never changes syncEnabled, even when the tenant was disabled
\* while the poll was in flight.
C35_Upsert ==
    [][\A o \in Orgs :
          LET old == event_sync_state[o]
              new == event_sync_state'[o] IN
          /\ UpsertOf(o) = {} => new = old
          /\ \A state \in UpsertOf(o) :
                /\ new # None
                /\ Val(new).last_synced_cursor =
                      ColumnAfter(state.lastSyncedCursor,
                                  IF old = None THEN None
                                  ELSE Some(Val(old).last_synced_cursor), None)
                /\ Val(new).last_synced_at =
                      ColumnAfter(state.lastSyncedAt,
                                  IF old = None THEN None
                                  ELSE Some(Val(old).last_synced_at), None)
                /\ Val(new).sync_enabled =
                      ColumnAfter(state.syncEnabled,
                                  IF old = None THEN None
                                  ELSE Some(Val(old).sync_enabled), TRUE)
                /\ (pollCall[1].pc = "updateSyncState" /\ pollCall'[1].pc = "returned")
                      => Val(new).sync_enabled = Val(old).sync_enabled]_vars

\* org1 was disabled while its poll was in flight; the poll then stored its
\* cursor, as the last write to the row, and the tenant is still disabled
C35_Witness ==
    /\ pollCall[1].pc = "returned"
    /\ pollCall[1].orgId = "org1"
    /\ Val(pollCall[1].result).newCursor = Some("41")
    /\ fnCall = [op |-> "updateSyncState", orgId |-> "org1",
                 state |-> [lastSyncedCursor |-> None, lastSyncedAt |-> None,
                            syncEnabled |-> Some(FALSE)]]
    /\ ~Val(event_sync_state["org1"]).sync_enabled
    /\ Val(event_sync_state["org1"]).last_synced_cursor = Some("41")
    /\ Val(event_sync_state["org1"]).last_synced_at
          = Some(Val(event_sync_state["org1"]).updated_at)

\* ------------------------------------------------------------------------
\* Polls in a row against the labeler of the inbound flow test
\* ------------------------------------------------------------------------
\* pollEvents calls the test makes at most
MaxPagingPolls ==
    3

\* the test has polled nothing yet: per org the ids of the events its polls
\* returned, in order, and whether the labeler has answered with an empty page
IdlePaging ==
    [op |-> "testInboundFlow", polls |-> 0,
     returned |-> [o \in Orgs |-> <<>>], drained |-> [o \in Orgs |-> FALSE]]

InitPaging ==
    /\ InitJobVars
    /\ InitMapVars
    /\ credentials = JobCredentials
    /\ configEdits = 0
    /\ emitted_events = <<>>
    /\ statusHistory = <<>>
    /\ rowCreator = <<>>
    /\ emitCall = [c \in EmitCalls |-> IdleEmit]
    /\ sentEmits = {}
    /\ dbFaults = 0
    /\ event_sync_state = JobSyncState
    /\ cursorHistory = [o \in Orgs |-> <<None>>]
    /\ pollCall = [p \in PollCalls |-> IdlePoll]
    /\ sentQueries = {}
    /\ returnedCursors = [o \in Orgs |-> {}]
    /\ now = 0
    /\ fnCall = IdlePaging

\* the steps of a pollEvents call in slot p, other than the labeler's answer;
\* no more than MaxPagingPolls calls are made in all
PagingPollStep(p) ==
    \/ /\ fnCall.polls + Cardinality({q \in PollCalls : pollCall[q].pc # "idle"})
             < MaxPagingPolls
       /\ \E orgId \in Orgs : PollGetClient(p, orgId)
    \/ PollGetSyncState(p)
    \/ PollQueryEvents(p)
    \/ PollUpdateSyncState(p)

\* the labeler answers the request with the page after its cursor, or the
\* request fails
PagingLabelerResponds(p) ==
    /\ pollCall[p].pc = "awaitResponse"
    /\ LET call == pollCall[p]
           params == QueryParams(Val(call.syncState).last_synced_cursor)
           page == Page(call.orgId, params.cursor) IN
       \/ /\ PollReceives(p, PageResponse(page))
          /\ fnCall' = IF page = <<>>
                       THEN [fnCall EXCEPT !.drained[call.orgId] = TRUE]
                       ELSE fnCall
       \/ /\ PollRequestFails(p)
          /\ UNCHANGED fnCall
    /\ UNCHANGED <<credentials, configEdits, emitVars, mapVars, jobVars, dbFaults,
                   event_sync_state, cursorHistory, sentQueries>>

\* the ids of a list of events
RECURSIVE IdsOf(_)
IdsOf(events) ==
    IF events = <<>> THEN <<>> ELSE <<Head(events).id>> \o IdsOf(Tail(events))

\* const {events, newCursor} = await ozoneService.pollEvents(orgId) settles
PagingSettled(p) ==
    /\ pollCall[p].pc \in {"returned", "raised"}
    /\ fnCall' = [fnCall EXCEPT
          !.polls = @ + 1,
          !.returned[pollCall[p].orgId] =
              IF pollCall[p].pc = "returned"
              THEN @ \o IdsOf(Val(pollCall[p].result).events)
              ELSE @]
    /\ pollCall' = [pollCall EXCEPT ![p] = IdlePoll]
    /\ UNCHANGED <<credentials, configEdits, emitVars, mapVars, jobVars, dbFaults,
                   event_sync_state, cursorHistory, sentQueries, returnedCursors, now>>

\* one caller: its polls follow one another
NextPaging ==
    \/ PagingPollStep(1)
    \/ PagingLabelerResponds(1)
    \/ PagingSettled(1)

SpecPaging ==
    InitPaging /\ [][NextPaging]_vars

\* two callers (scheduler instances running at once): their polls overlap
Instances ==
    {p \in PollCalls : p <= 2}

NextOverlap ==
    \/ \E p \in Instances : PagingPollStep(p)
    \/ \E p \in Instances : PagingLabelerResponds(p)
    \/ \E p \in Instances : PagingSettled(p)

SpecOverlap ==
    InitPaging /\ [][NextOverlap]_vars

\* ------------------------------------------------------------------------
\* Claims about paging through the labeler's events
\* ------------------------------------------------------------------------
\* C36: against a labeler that pages like the mock server, the events that
\* successive pollEvents calls of a tenant have returned are, at any time,
\* the first events of the tenant's stream in ascending order of id, each
\* once and without a gap; once the labeler has answered with an empty page
\* they are all the events; and between two calls the stored cursor is the
\* highest id returned (null when nothing was returned).
C36_EveryEventOnce ==
    \A o \in Orgs :
        LET ids == IdsOf(Stream(o))
            got == fnCall.returned[o] IN
        /\ Len(got) <= Len(ids)
        /\ got = SubSeq(ids, 1, Len(got))
        /\ fnCall.drained[o] /\ pollCall[1].pc = "idle" => got = ids
        /\ pollCall[1].pc = "idle" =>
              CursorOf(event_sync_state, o) =
                 IF got = <<>> THEN None ELSE Some(ToString(got[Len(got)]))

\* three polls of org1 returned its four events in two pages and then an
\* empty page; the cursor is the id of the last event
C36_Witness ==
    /\ pollCall[1].pc = "idle"
    /\ fnCall.returned["org1"] = <<41, 42, 43, 44>>
    /\ fnCall.drained["org1"]
    /\ CursorOf(event_sync_state, "org1") = Some("44")
    /\ fnCall.polls >= 3

\* ------------------------------------------------------------------------
\* Claims about audit rows left PENDING
\* ------------------------------------------------------------------------
\* C37 (as stated): the row of an emitEvent call that has returned or raised
\* is SUCCESS or RETRYABLE_ERROR, and every PENDING row belongs to a call
\* that is still in flight (no process crashes in this specification).
C37_Original ==
    /\ \A c \in EmitCalls :
          (Inserted(c) /\ (Returned(c) \/ Raised(c))) => RowOf(c).status \in Terminal
    /\ \A id \in DOMAIN emitted_events :
          emitted_events[id].status = "PENDING" =>
              emitCall[rowCreator[id]].pc \notin {"idle", "returned", "raised"}

\* ------------------------------------------------------------------------
\* Claims about the two credential reads of emitEvent
\* ------------------------------------------------------------------------
\* C38 (as stated): in every request emitEvent has sent to the labeler the
\* body's createdBy is the iss of the bearer token of that request, also
\* when the tenant's credential was replaced or removed between the read in
\* getClient and the read of credential.
C38_Original ==
    \A request \in sentEmits : request.createdBy = request.token.iss

\* ------------------------------------------------------------------------
\* Claims about overlapping polls of one tenant
\* ------------------------------------------------------------------------
\* the cursors the tenant's row has held do not go down
NeverBack(history) ==
    \A i \in 1..(Len(history) - 1) : NumberOf(history[i]) <= NumberOf(history[i + 1])

JobAdminStep ==
    /\ job.pc \in {"start", "sleep"}
    /\ \E orgId \in Orgs, enabled \in BOOLEAN :
          /\ enabled # Val(event_sync_state[orgId]).sync_enabled
          /\ AdminSetSyncEnabled(orgId, enabled)

\* the steps of a job whose signal is never aborted
JobUncancelled ==
    \/ \E env \in PollEnabledEnv : JobRun(env)
    \/ JobListOrgs
    \/ JobPollStep
    \/ JobLabelerResponds
    \/ JobPollSettled
    \/ JobProcessEvent
    \/ JobGetItemTypes
    \/ JobEnqueue
    \/ JobSleepTick
    \/ JobSleepDone

NextJobAdmin ==
    \/ JobUncancelled
    \/ JobAdminStep

\* both tenants have been polled before: the labeler has one more event for each
SyncedRow(cursor) ==
    [last_synced_cursor |-> Some(cursor), last_synced_at |-> Some(0), sync_enabled |-> TRUE,
     updated_at |-> 0]
JobAdminSyncState ==
    [o \in Orgs |-> Some(SyncedRow(ToString(Stream(o)[Len(Stream(o)) - 1].id)))]

InitJobAdmin ==
    /\ InitJobVars
    /\ InitFnVars
    /\ InitMapVars
    /\ credentials = JobCredentials
    /\ configEdits = 0
    /\ emitted_events = <<>>
    /\ statusHistory = <<>>
    /\ rowCreator = <<>>
    /\ emitCall = [c \in EmitCalls |-> IdleEmit]
    /\ sentEmits = {}
    /\ dbFaults = 0
    /\ event_sync_state = JobAdminSyncState
    /\ cursorHistory = [o \in Orgs |-> <<CursorOf(JobAdminSyncState, o)>>]
    /\ pollCall = [p \in PollCalls |-> IdlePoll]
    /\ sentQueries = {}
    /\ returnedCursors = [o \in Orgs |-> {}]
    /\ now = 0

\* every await of run() settles; operators act when they like
SpecJobAdmin ==
    InitJobAdmin /\ [][NextJobAdmin]_vars /\ WF_vars(JobUncancelled)

\* ------------------------------------------------------------------------
\* Claims about the tenants polled in each cycle
\* ------------------------------------------------------------------------
\* the tenants whose row has sync enabled now
SyncEnabledNow ==
    {o \in Orgs : IF event_sync_state[o] = None THEN FALSE
                  ELSE Val(event_sync_state[o]).sync_enabled}

\* the elements of a list
ListedIn(list) ==
    {list[i] : i \in DOMAIN list}

\* C40 (as stated): a cycle of an enabled, not cancelled job that has reached
\* its sleep has called pollEvents once for every tenant that was
\* sync-enabled all the time (no operator has edited the sync state).
C40_Original ==
    (job.pc = "sleep" /\ ~aborted /\ ~job.broke /\ configEdits = 0)
        => \A o \in SyncEnabledNow :
              Cardinality({i \in DOMAIN job.polled : job.polled[i] = o}) = 1

\* C40 (amended): the listing of a cycle, when it succeeds, holds exactly the
\* tenants that are sync-enabled when it is read; a cycle that was not
\* cancelled has called pollEvents once for every tenant of its list,
\* whatever polls failed in this or in earlier cycles, and for nobody when
\* the listing failed; a request is sent only for a tenant of the list; and
\* a job that is enabled and never cancelled gets through every one of its
\* cycles, up to the sleep of the last one.
C40_ListedTenantsPolled ==
    /\ [][(job.pc = "listOrgs" /\ job'.listed # None)
             => ListedIn(Val(job'.listed)) = SyncEnabledNow]_vars
    /\ [](job.pc = "sleep" =>
             IF job.listed = None THEN job.polled = <<>>
             ELSE /\ job.polled = Val(job.listed)
                  /\ \A i, k \in DOMAIN job.polled :
                        i # k => job.polled[i] # job.polled[k])
    /\ [][\A q \in sentQueries' \ sentQueries :
             /\ job.listed # None
             /\ q.orgId \in ListedIn(Val(job.listed))]_vars
    /\ <>(job.pc = "disabled" \/ (job.pc = "sleep" /\ job.cycle = MaxCycles))

\* the second cycle has ended: org2 was disabled before the first listing and
\* never queried; a poll of org1 failed and org1 was polled in both cycles
C40_Witness ==
    /\ job.pc = "sleep"
    /\ job.cycle = 2
    /\ ~aborted
    /\ job.listed = Some(<<"org1">>)
    /\ job.polled = <<"org1">>
    /\ jobLog.poll = 1
    /\ "org2" \notin SyncEnabledNow
    /\ \A q \in sentQueries : q.orgId = "org1"
    /\ sentQueries # {}

====
